---- MODULE Spec2Model ----
(***************************************************************************)
(* Drive-sequence compiler of qudit_sim (qudit_sim/drive.py).              *)
(*                                                                         *)
(* A DriveTerm holds an instruction sequence.  DriveTerm.generate_fn walks *)
(* it left to right keeping (frequency, phase_offset, time), appends one   *)
(* interval per Delay / amplitude instruction to funclist, and merges the  *)
(* intervals into the two coefficient functions fn_x and fn_y.             *)
(*                                                                         *)
(* Numbers are integers (exact arithmetic).  The complex factor            *)
(* drive_base * exp(-1j * phase_offset) is kept symbolically as the value  *)
(* of phase_offset it was built from; a coefficient is a record naming its *)
(* Python type (kind), the expression that built it (form) and the values  *)
(* that expression reads.                                                  *)
(***************************************************************************)
EXTENDS Integers, Sequences, FiniteSets, TLC

\* ---------------------------------------------------------------- bounds
MaxLen == 3          \* longest instruction sequence
MaxFreq == 2         \* SetFrequency values are 1..MaxFreq
MaxEig == 2          \* eigenvalues of the matrices given to matrix_ufunc are 1..MaxEig
MaxTail == 2         \* time points of a trajectory after its quiet start: 1..MaxTail
MaxQuiet == 7        \* time points of the quiet start of a trajectory: 0..MaxQuiet
MaxBasis == 2        \* basis elements of an iterative fit: 1..MaxBasis
MaxIterations == 3   \* largest iteration cap of a run of the extraction engine
MaxTasks == 2        \* longest list given to pulse_sim as a parameter

\* np.inf (the elapsed time after an indefinite drive); larger than any sum
\* of durations the bounds allow.
Inf == 1000

\* Python's None, for frequency and constant_phase: <<>> is None, <<v>> is v.
None == <<>>

\* -------------------------------------------------------- instructions
\* An element of DriveTerm._sequence.  op is the Python type of the element:
\* the five instruction dataclasses, or the type of an amplitude
\* ("float" stands for float and complex, "int" for a value of no
\* recognized amplitude type).
Inst(op, value, data, text) == [op |-> op, value |-> value, data |-> data, text |-> text]

SetFrequency(v) == Inst("SetFrequency", v, <<>>, "")
ShiftFrequency(v) == Inst("ShiftFrequency", v, <<>>, "")
SetPhase(v) == Inst("SetPhase", v, <<>>, "")
ShiftPhase(v) == Inst("ShiftPhase", v, <<>>, "")
Delay(v) == Inst("Delay", v, <<>>, "")

\* Amplitudes: a number, a text expression, a sampled array, a Pulse (a
\* TimeFunction with a duration), another callable, an unsupported value, a
\* Parameter (text is its name).
FloatAmp(a) == Inst("float", a, <<>>, "")
StrAmp(s) == Inst("str", 0, <<>>, s)
ArrayAmp(d) == Inst("ndarray", 0, d, "")
PulseAmp(duration) == Inst("Pulse", duration, <<>>, "")
CallableAmp == Inst("callable", 0, <<>>, "")
IntAmp(a) == Inst("int", a, <<>>, "")
ParamAmp(name) == Inst("Parameter", 0, <<>>, name)
NoInst == Inst("None", 0, <<>>, "")

InstructionOps == {"SetFrequency", "ShiftFrequency", "SetPhase", "ShiftPhase", "Delay"}

IsAmplitude(inst) == inst.op \notin InstructionOps

\* Text amplitudes that eval() turns into a number (drive.py:124-127), with
\* the number they evaluate to.
StaticTexts == {"2.0"}

StaticValue(s) == 2

SetFrequencyValues == 1..MaxFreq

Amplitudes ==
    {FloatAmp(1), StrAmp("A * t"), StrAmp("2.0"), ArrayAmp(<<1, 2>>), ArrayAmp(<<3>>),
     PulseAmp(2), CallableAmp, IntAmp(1)}

Instructions ==
    {SetFrequency(v) : v \in SetFrequencyValues}
        \cup {ShiftFrequency(1), SetPhase(3), ShiftPhase(1), Delay(0), Delay(1)}
        \cup Amplitudes

DriveSequences == UNION {[1..n -> Instructions] : n \in 0..MaxLen}

\* ------------------------------------------------------ deferred values
\* A frequency, frame frequency or constant phase is a number or a deferred
\* value: a Parameter, or the ParameterExpression that arithmetic on one
\* gives.  A value is n + the sum of c[q] * q over the parameters q; type is
\* its Python type, "repr" for a deferred value formatted into text.
Params == {"f", "xi", "a", "phi"}

ZeroCoefs == [q \in Params |-> 0]

Num(n) == [type |-> "float", c |-> ZeroCoefs, n |-> n]

Parameter(name) == [type |-> "Parameter", c |-> [ZeroCoefs EXCEPT ![name] = 1], n |-> 0]

IsDeferred(v) == v.type # "float"

\* u + v
Add(u, v) ==
    [type |-> IF IsDeferred(u) \/ IsDeferred(v) THEN "ParameterExpression" ELSE "float",
     c |-> [q \in Params |-> u.c[q] + v.c[q]],
     n |-> u.n + v.n]

\* -v
Neg(v) ==
    [type |-> IF IsDeferred(v) THEN "ParameterExpression" ELSE "float",
     c |-> [q \in Params |-> 0 - v.c[q]],
     n |-> 0 - v.n]

\* u - v
Sub(u, v) == Add(u, Neg(v))

\* v.evaluate(): the number v is when every parameter is bound to b
Evaluate(v, b) == Num(v.n + b * (v.c["f"] + v.c["xi"] + v.c["a"] + v.c["phi"]))

\* f'{v}': a number is written out; a deferred value leaves text that no
\* longer refers to its parameters
Format(v) == IF IsDeferred(v) THEN [type |-> "repr", c |-> ZeroCoefs, n |-> 0] ELSE v

\* v == 0.
IsZero(v) == v.type = "float" /\ v.n = 0

\* -------------------------------------------------------- coefficients
\* A Hamiltonian coefficient, or one interval's coefficient function.
\*   kind     Python type: "TimeFunction", "ndarray", "str", "float",
\*            "ParameterExpression"; "None" for the None of the terminating
\*            funclist entry
\*   form     the expression of the source that built it
\*   inst     the amplitude it was built from
\*   phase    the phase_offset folded into drive_base
\*   osc      the frequency of the oscillating factor: the detuning or the
\*            frequency that form names
\*   frame    the frame frequency multiplied in by the full generator, and
\*   proj     the projection it enters with: "cos", "sin", or "" for none
\*   tzero    the start offset given to a callable envelope
\*   cphase   the constant_phase used (None if unused)
\*   samples  for an ndarray: its entries, each <<sample, phase>>
\*   timelist, funclist   for a PiecewiseFunction: its breakpoints and pieces
Coef(kind, form, inst, phase, osc, tzero, cphase, samples) ==
    [kind |-> kind, form |-> form, inst |-> inst, phase |-> phase, osc |-> osc,
     frame |-> Num(0), proj |-> "", tzero |-> tzero, cphase |-> cphase, samples |-> samples,
     timelist |-> <<>>, funclist |-> <<>>]

NoneCoef == Coef("None", "", NoInst, 0, Num(0), 0, None, <<>>)

\* ConstantFunction(0.)
ConstantFunction0 == Coef("TimeFunction", "ConstantFunction(0.)", NoInst, 0, Num(0), 0, None, <<>>)

\* amplitude * drive_base for a sampled array: every sample is scaled by
\* drive_base * exp(-1j * phase)
Envelope(data, phase) == [i \in 1..Len(data) |-> <<data[i], phase>>]

\* What generate_single gives back: err is "" and (x, y) the pair, or err
\* names the exception raised; warn tells whether warnings.warn was called.
Single(x, y) == [err |-> "", x |-> x, y |-> y, warn |-> FALSE]

SingleError(e) == [err |-> e, x |-> NoneCoef, y |-> NoneCoef, warn |-> FALSE]

\* the else branch falling through with None for the pair
Unsupported_Passes(amplitude) == Single(NoneCoef, NoneCoef)

\* else: raise TypeError(f'Unsupported amplitude type f{type(amplitude)}')
Unsupported(amplitude) == SingleError("TypeError: Unsupported amplitude type")

\* the text amplitudes of the model in which the character t occurs, and
\* those of them that refer to the time symbol t
TextsWithT == {"A * t", "sqrt(A)"}

TextsOfTime == {"A * t"}

\* WarnTzero warning at every start offset
WarnTzero_Always(amplitude, tzero, r) ==
    IF amplitude.text \in TextsWithT THEN [r EXCEPT !.warn = TRUE] ELSE r

\* if tzero != 0. and 't' in amplitude: warnings.warn(...)
WarnTzero(amplitude, tzero, r) ==
    IF tzero # 0 /\ amplitude.text \in TextsWithT THEN [r EXCEPT !.warn = TRUE] ELSE r

\* What np.isclose(detuning, 0.) does with a deferred detuning is not fixed
\* by this repository: it may answer either way or raise.
IsCloseOutcomes == {"True", "False", "TypeError"}

\* IsResonant that never finds a resonance
IsResonant_Never(frequency, detuning, np_isclose) ==
    IF IsDeferred(detuning) /\ frequency.type # "Parameter" THEN np_isclose ELSE "False"

\* is_resonant of _generate_single_rwa: "True", "False", or "TypeError" when
\* np.isclose raises; np_isclose is what np.isclose does with a deferred value
IsResonant(frequency, detuning, np_isclose) ==
    IF frequency.type = "Parameter"
    THEN "False"
    ELSE IF IsDeferred(detuning)
    THEN np_isclose
    ELSE IF detuning.n = 0 THEN "True" ELSE "False"

\* _generate_single_rwa.  phase stands for the drive_base argument
\* drive_base * np.exp(-1.j * phase_offset).
GenerateSingleRwa(amplitude, frequency, frame_frequency, phase, tzero, constant_phase, solver, np_isclose) ==
    LET detuning == Sub(frequency, frame_frequency)
        is_resonant == IsResonant(frequency, detuning, np_isclose)
        C(kind, form, osc, tz, cp, samples) ==
            Coef(kind, form, amplitude, phase, osc, tz, cp, samples)
    IN  CASE is_resonant = "TypeError" ->
               SingleError("TypeError: np.isclose of a deferred value")
          [] amplitude.op \in {"float", "Parameter"} ->
               IF is_resonant = "True"
               THEN IF amplitude.op = "Parameter"
                    THEN Single(C("ParameterExpression", "envelope.real", Num(0), 0, None, <<>>),
                                C("ParameterExpression", "envelope.imag", Num(0), 0, None, <<>>))
                    ELSE Single(C("float", "envelope.real", Num(0), 0, None, <<>>),
                                C("float", "envelope.imag", Num(0), 0, None, <<>>))
               ELSE IF amplitude.op = "Parameter" \/ frequency.type = "Parameter" \/ solver = "jax"
               THEN Single(C("TimeFunction", "(ExpFunction(-detuning) * envelope).real", detuning, 0, None, <<>>),
                           C("TimeFunction", "(ExpFunction(-detuning) * envelope).imag", detuning, 0, None, <<>>))
               ELSE Single(C("str", "re * cos(detuning * t) + im * sin(detuning * t)", Format(detuning), 0, None, <<>>),
                           C("str", "-re * sin(detuning * t) + im * cos(detuning * t)", Format(detuning), 0, None, <<>>))
          [] amplitude.op = "str" ->
               WarnTzero(amplitude, tzero,
                   IF is_resonant = "True"
                   THEN Single(C("str", "(envelope).real", Num(0), 0, None, <<>>),
                               C("str", "(envelope).imag", Num(0), 0, None, <<>>))
                   ELSE IF constant_phase = None
                   THEN Single(C("str", "(envelope).real * cos(detuning * t) + (envelope).imag * sin(detuning * t)", Format(detuning), 0, None, <<>>),
                               C("str", "(envelope).imag * cos(detuning * t) - (envelope).real * sin(detuning * t)", Format(detuning), 0, None, <<>>))
                   ELSE Single(C("str", "abs(envelope) * cos(phase - (detuning * t))", Format(detuning), 0, <<Format(constant_phase[1])>>, <<>>),
                               C("str", "abs(envelope) * sin(phase - (detuning * t))", Format(detuning), 0, <<Format(constant_phase[1])>>, <<>>)))
          [] amplitude.op = "ndarray" ->
               IF is_resonant = "True"
               THEN Single(Coef("ndarray", "envelope.real", NoInst, 0, Num(0), 0, None, Envelope(amplitude.data, phase)),
                           Coef("ndarray", "envelope.imag", NoInst, 0, Num(0), 0, None, Envelope(amplitude.data, phase)))
               ELSE Single(C("TimeFunction", "(ExpFunction(-detuning) * envelope).real", detuning, 0, None, <<>>),
                           C("TimeFunction", "(ExpFunction(-detuning) * envelope).imag", detuning, 0, None, <<>>))
          [] amplitude.op \in {"Pulse", "callable"} ->
               IF is_resonant = "True"
               THEN Single(C("TimeFunction", "envelope.real", Num(0), tzero, None, <<>>),
                           C("TimeFunction", "envelope.imag", Num(0), tzero, None, <<>>))
               ELSE IF constant_phase = None
               THEN Single(C("TimeFunction", "(envelope * ExpFunction(-detuning)).real", detuning, tzero, None, <<>>),
                           C("TimeFunction", "(envelope * ExpFunction(-detuning)).imag", detuning, tzero, None, <<>>))
               ELSE Single(C("TimeFunction", "abs(envelope) * CosFunction(-detuning, phase)", detuning, tzero, constant_phase, <<>>),
                           C("TimeFunction", "abs(envelope) * SinFunction(-detuning, phase)", detuning, tzero, constant_phase, <<>>))
          [] OTHER -> Unsupported(amplitude)

\* FrameProject with the cosine and the sine exchanged
FrameProject_Swapped(labframe_fn, frame_frequency) ==
    IF IsZero(frame_frequency)
    THEN Single(labframe_fn,
                IF labframe_fn.kind = "str"
                THEN Coef("str", "", NoInst, 0, Num(0), 0, None, <<>>)
                ELSE ConstantFunction0)
    ELSE Single([labframe_fn EXCEPT !.proj = "sin", !.frame = frame_frequency],
                [labframe_fn EXCEPT !.proj = "cos", !.frame = frame_frequency])

\* The tail of _generate_single_full: the lab-frame function times the
\* frame's cosine and sine, with frame_frequency == 0 special-cased.  A text
\* gets the frame frequency formatted into it.
FrameProject(labframe_fn, frame_frequency) ==
    IF labframe_fn.kind = "str"
    THEN IF IsZero(frame_frequency)
         THEN Single(labframe_fn, Coef("str", "", NoInst, 0, Num(0), 0, None, <<>>))
         ELSE Single([labframe_fn EXCEPT !.proj = "cos", !.frame = Format(frame_frequency)],
                     [labframe_fn EXCEPT !.proj = "sin", !.frame = Format(frame_frequency)])
    ELSE IF IsZero(frame_frequency)
         THEN Single(labframe_fn, ConstantFunction0)
         ELSE Single([labframe_fn EXCEPT !.proj = "cos", !.frame = frame_frequency],
                     [labframe_fn EXCEPT !.proj = "sin", !.frame = frame_frequency])

\* _generate_single_full
GenerateSingleFull(amplitude, frequency, frame_frequency, phase, tzero, constant_phase, solver) ==
    LET C(kind, form, osc, tz, cp) ==
            Coef(kind, form, amplitude, phase, osc, tz, cp, <<>>)
    IN  CASE amplitude.op \in {"float", "Parameter"} ->
               IF amplitude.op = "Parameter" \/ frequency.type = "Parameter" \/ solver = "jax"
               THEN FrameProject(C("TimeFunction", "re * CosFunction(frequency) + im * SinFunction(frequency)", frequency, 0, None),
                                 frame_frequency)
               ELSE FrameProject(C("str", "re * cos(frequency * t) + im * sin(frequency * t)", Format(frequency), 0, None),
                                 frame_frequency)
          [] amplitude.op = "str" ->
               WarnTzero(amplitude, tzero,
                   IF constant_phase = None
                   THEN FrameProject(C("str", "(double_envelope * (cos(frequency * t) - 1.j * sin(frequency * t))).real", Format(frequency), 0, None),
                                     frame_frequency)
                   ELSE IF constant_phase[1].type = "Parameter"
                   THEN SingleError("TypeError: bad operand type for abs(): 'str'")
                   ELSE FrameProject(C("str", "abs(double_envelope) * cos(phase - (frequency * t))", Format(frequency), 0, <<Format(constant_phase[1])>>),
                                     frame_frequency))
          [] amplitude.op = "ndarray" ->
               FrameProject(C("TimeFunction", "(ExpFunction(-frequency) * double_envelope).real", frequency, 0, None),
                            frame_frequency)
          [] amplitude.op \in {"Pulse", "callable"} ->
               IF constant_phase = None
               THEN FrameProject(C("TimeFunction", "(double_envelope * ExpFunction(-frequency)).real", frequency, tzero, None),
                                 frame_frequency)
               ELSE SingleError("NameError: name 'drive_phase' is not defined")
          [] OTHER -> Unsupported(amplitude)

\* ------------------------------------------------- the walk of generate_fn
\* The locals of generate_fn during the loop over the sequence.  pc is
\* "loop" while the loop goes on, "break" after the break of an indefinite
\* drive, "raised" after a raise (error then holds the exception).
WalkStart ==
    [frequency |-> None, phase_offset |-> 0, time |-> 0, funclist |-> <<>>,
     pc |-> "loop", error |-> ""]

Raise(w, e) == [w EXCEPT !.pc = "raised", !.error = e]

Interval(time, x, y) == [time |-> time, x |-> x, y |-> y]

\* ShiftFrequencyBranch without its check: an unset frequency counts as 0
ShiftFrequencyBranch_Unchecked(w, inst) ==
    [w EXCEPT !.frequency = <<(IF @ = None THEN 0 ELSE @[1]) + inst.value>>]

\* isinstance(inst, ShiftFrequency)
ShiftFrequencyBranch(w, inst) ==
    IF w.frequency = None
    THEN Raise(w, "RuntimeError: ShiftFrequency called before SetFrequency")
    ELSE [w EXCEPT !.frequency = <<w.frequency[1] + inst.value>>]

\* isinstance(inst, ShiftPhase)
ShiftPhaseBranch(w, inst) == [w EXCEPT !.phase_offset = @ + inst.value]

\* SetFrequencyBranch adding to the frequency already set
SetFrequencyBranch_Accumulate(w, inst) ==
    [w EXCEPT !.frequency = IF @ = None THEN <<inst.value>> ELSE <<@[1] + inst.value>>]

\* isinstance(inst, SetFrequency)
SetFrequencyBranch(w, inst) == [w EXCEPT !.frequency = <<inst.value>>]

\* SetPhaseBranch adding to the phase offset, as ShiftPhase does
SetPhaseBranch_Accumulate(w, inst) ==
    IF w.frequency = None
    THEN Raise(w, "RuntimeError: SetPhase called before SetFrequency")
    ELSE [w EXCEPT !.phase_offset = @ + inst.value - w.frequency[1] * w.time]

\* isinstance(inst, SetPhase)
SetPhaseBranch(w, inst) ==
    IF w.frequency = None
    THEN Raise(w, "RuntimeError: SetPhase called before SetFrequency")
    ELSE [w EXCEPT !.phase_offset = inst.value - w.frequency[1] * w.time]

\* DelayBranch advancing the time before it stamps the interval
DelayBranch_StampAfter(w, inst) ==
    [w EXCEPT !.funclist = Append(@, Interval(w.time + inst.value, ConstantFunction0, ConstantFunction0)),
              !.time = @ + inst.value]

\* isinstance(inst, Delay)
DelayBranch(w, inst) ==
    [w EXCEPT !.funclist = Append(@, Interval(w.time, ConstantFunction0, ConstantFunction0)),
              !.time = @ + inst.value]

\* inst = complex(eval(inst)) for a text amplitude that is a static expression
EvalStatic(inst) ==
    IF inst.op = "str" /\ inst.text \in StaticTexts
    THEN FloatAmp(StaticValue(inst.text))
    ELSE inst

\* if rwa: generate_single = _generate_single_rwa, else _generate_single_full
GenerateSingle(env, amplitude, frequency, phase, tzero) ==
    IF env.rwa
    THEN GenerateSingleRwa(amplitude, frequency, env.frame_frequency, phase, tzero,
                           env.constant_phase, env.solver, env.np_isclose)
    ELSE GenerateSingleFull(amplitude, frequency, env.frame_frequency, phase, tzero,
                            env.constant_phase, env.solver)

\* AmplitudeBranch without the break after an indefinite drive
AmplitudeBranch_NoBreak(w, inst, env) ==
    IF w.frequency = None
    THEN Raise(w, "RuntimeError: Pulse called before SetFrequency")
    ELSE LET amplitude == EvalStatic(inst)
             fn == GenerateSingle(env, amplitude, Num(w.frequency[1]), w.phase_offset, w.time)
         IN  IF fn.err # ""
             THEN Raise(w, fn.err)
             ELSE [w EXCEPT !.funclist = Append(@, Interval(w.time, fn.x, fn.y)),
                            !.time = IF amplitude.op = "Pulse" THEN @ + amplitude.value ELSE Inf]

\* AmplitudeBranch with a Pulse that does not advance the time
AmplitudeBranch_NoAdvance(w, inst, env) ==
    IF w.frequency = None
    THEN Raise(w, "RuntimeError: Pulse called before SetFrequency")
    ELSE LET amplitude == EvalStatic(inst)
             fn == GenerateSingle(env, amplitude, Num(w.frequency[1]), w.phase_offset, w.time)
         IN  IF fn.err # ""
             THEN Raise(w, fn.err)
             ELSE IF amplitude.op = "Pulse"
             THEN [w EXCEPT !.funclist = Append(@, Interval(w.time, fn.x, fn.y))]
             ELSE [w EXCEPT !.funclist = Append(@, Interval(w.time, fn.x, fn.y)),
                            !.time = Inf,
                            !.pc = "break"]

\* the else branch of the loop: inst is an amplitude
AmplitudeBranch(w, inst, env) ==
    IF w.frequency = None
    THEN Raise(w, "RuntimeError: Pulse called before SetFrequency")
    ELSE LET amplitude == EvalStatic(inst)
             fn == GenerateSingle(env, amplitude, Num(w.frequency[1]), w.phase_offset, w.time)
         IN  IF fn.err # ""
             THEN Raise(w, fn.err)
             ELSE IF amplitude.op = "Pulse"
             THEN [w EXCEPT !.funclist = Append(@, Interval(w.time, fn.x, fn.y)),
                            !.time = @ + amplitude.value]
             ELSE [w EXCEPT !.funclist = Append(@, Interval(w.time, fn.x, fn.y)),
                            !.time = Inf,
                            !.pc = "break"]

\* One iteration of the loop body.
LoopBody(w, inst, env) ==
    CASE inst.op = "ShiftFrequency" -> ShiftFrequencyBranch(w, inst)
      [] inst.op = "ShiftPhase" -> ShiftPhaseBranch(w, inst)
      [] inst.op = "SetFrequency" -> SetFrequencyBranch(w, inst)
      [] inst.op = "SetPhase" -> SetPhaseBranch(w, inst)
      [] inst.op = "Delay" -> DelayBranch(w, inst)
      [] OTHER -> AmplitudeBranch(w, inst, env)

\* for inst in self._sequence: ... (until the sequence ends, a break or a raise)
RECURSIVE Walk(_, _, _)
Walk(w, s, env) ==
    IF s = <<>> \/ w.pc # "loop"
    THEN w
    ELSE Walk(LoopBody(w, Head(s), env), Tail(s), env)

\* PiecewiseFunction(timelist, funclist)
PiecewiseFunction(timelist, funcs) ==
    [Coef("TimeFunction", "PiecewiseFunction", NoInst, 0, 0, 0, None, <<>>)
        EXCEPT !.timelist = timelist, !.funclist = funcs]

RECURSIVE Concatenate(_)
\* np.concatenate of a list of arrays
Concatenate(arrays) ==
    IF arrays = <<>> THEN <<>> ELSE Head(arrays) \o Concatenate(Tail(arrays))

\* np.concatenate(list(x for _, x, _ in funclist[:-1])) as a coefficient
ConcatenateCoef(coefs) ==
    Coef("ndarray", coefs[1].form, NoInst, 0, 0, 0, None,
         Concatenate([i \in 1..Len(coefs) |-> coefs[i].samples]))

\* MergeFunclist building a PiecewiseFunction as soon as one interval is a
\* TimeFunction
MergeFunclist_AnyTimeFunction(fl) ==
    LET n == Len(fl) - 1
    IN  IF Len(fl) = 1
        THEN SingleError("ValueError: No drive amplitude specified")
        ELSE IF Len(fl) = 2
        THEN Single(fl[1].x, fl[1].y)
        ELSE IF \E i \in 1..n : fl[i].x.kind = "TimeFunction"
        THEN Single(PiecewiseFunction([i \in 1..Len(fl) |-> fl[i].time], [i \in 1..n |-> fl[i].x]),
                    PiecewiseFunction([i \in 1..Len(fl) |-> fl[i].time], [i \in 1..n |-> fl[i].y]))
        ELSE IF \A i \in 1..n : fl[i].x.kind = "ndarray"
        THEN Single(ConcatenateCoef([i \in 1..n |-> fl[i].x]),
                    ConcatenateCoef([i \in 1..n |-> fl[i].y]))
        ELSE SingleError("ValueError: Cannot generate a Hamiltonian coefficient from amplitude types")

\* The part of generate_fn after the loop, on the funclist with its
\* terminating (time, None, None) entry: returns the pair, or raises.
MergeFunclist(fl) ==
    LET n == Len(fl) - 1
    IN  IF Len(fl) = 1
        THEN SingleError("ValueError: No drive amplitude specified")
        ELSE IF Len(fl) = 2
        THEN Single(fl[1].x, fl[1].y)
        ELSE IF \A i \in 1..n : fl[i].x.kind = "TimeFunction"
        THEN Single(PiecewiseFunction([i \in 1..Len(fl) |-> fl[i].time], [i \in 1..n |-> fl[i].x]),
                    PiecewiseFunction([i \in 1..Len(fl) |-> fl[i].time], [i \in 1..n |-> fl[i].y]))
        ELSE IF \A i \in 1..n : fl[i].x.kind = "ndarray"
        THEN Single(ConcatenateCoef([i \in 1..n |-> fl[i].x]),
                    ConcatenateCoef([i \in 1..n |-> fl[i].y]))
        ELSE SingleError("ValueError: Cannot generate a Hamiltonian coefficient from amplitude types")

\* generate_fn as a function of the sequence and its arguments.
GenerateFn(s, env) ==
    LET w == Walk(WalkStart, s, env)
    IN  IF w.pc = "raised"
        THEN SingleError(w.error)
        ELSE MergeFunclist(Append(w.funclist, Interval(w.time, NoneCoef, NoneCoef)))

\* Frequency returning the first SetFrequency's value whatever the others are
Frequency_First(s) ==
    LET set_at == {j \in 1..Len(s) : s[j].op = "SetFrequency"}
    IN  IF set_at = {}
        THEN None
        ELSE <<s[CHOOSE j \in set_at : \A k \in set_at : j <= k].value>>

\* DriveTerm.frequency: None, or <<v>> for the value v
Frequency(s) ==
    LET frequencies == {s[i].value : i \in {j \in 1..Len(s) : s[j].op = "SetFrequency"}}
    IN  IF Cardinality(frequencies) = 1
        THEN <<CHOOSE v \in frequencies : TRUE>>
        ELSE None

\* ---------------------------------------------- generate_single on its own
\* The arguments of one call of generate_single, and what becomes of it:
\*   pc      "idle": no call; "call": about to be called; "compiled": fn is
\*           what it gave; "bound": bound is fn with every parameter bound
\*           to value; "done": direct is what the call gives when value is
\*           put for every parameter beforehand
SingleState(amplitude, frequency_, frame_frequency_, phase_offset_, tzero, constant_phase_, solver_, rwa_, np_isclose, value, pc_) ==
    [amplitude |-> amplitude, frequency |-> frequency_, frame_frequency |-> frame_frequency_,
     phase_offset |-> phase_offset_, tzero |-> tzero, constant_phase |-> constant_phase_,
     solver |-> solver_, rwa |-> rwa_, np_isclose |-> np_isclose, value |-> value,
     pc |-> pc_, fn |-> SingleError(""), bound |-> SingleError(""), direct |-> SingleError("")]

SingleIdle ==
    SingleState(NoInst, Num(0), Num(0), 0, 0, None, "qutip", FALSE, "TypeError", 0, "idle")

\* ------------------------------------------------------------ matrix_ufunc
\* Vectors and 3 x 3 matrices in exact arithmetic.  A unit vector is given
\* by its components times Unit, a matrix by its entries times Unit * Unit.
Unit == 15

Dim == 1..3

Dot(x, y) == x[1] * y[1] + x[2] * y[2] + x[3] * y[3]

MatVec(m, x) == [i \in Dim |-> Dot(m[i], x)]

Det3(V) ==
    V[1][1] * (V[2][2] * V[3][3] - V[2][3] * V[3][2])
        - V[1][2] * (V[2][1] * V[3][3] - V[2][3] * V[3][1])
        + V[1][3] * (V[2][1] * V[3][2] - V[2][2] * V[3][1])

\* the sum over k of w[k] * V[k] * V[k]^H, for real unit vectors V[1..3]:
\* npmod.matmul(eigcols * op_eigvals[..., None, :], eigrows), with eigrows
\* the conjugate transpose of eigcols
MatMul(w, V) ==
    [i \in Dim |-> [j \in Dim |->
        w[1] * V[1][i] * V[1][j] + w[2] * V[2][i] * V[2][j] + w[3] * V[3][i] * V[3][j]]]

\* two orthonormal bases: the axes, and one that is not aligned with them
AxisBasis == <<(<<15, 0, 0>>), (<<0, 15, 0>>), (<<0, 0, 15>>)>>

TiltedBasis == <<(<<10, 10, 5>>), (<<10, -5, -10>>), (<<5, -10, 10>>)>>

\* the unit vectors np.linalg.eig may give as eigenvectors: those of the two
\* bases, and one in the plane of TiltedBasis[2] and TiltedBasis[3] that is
\* orthogonal to neither
UnitVectors ==
    {AxisBasis[k] : k \in Dim} \cup {TiltedBasis[k] : k \in Dim} \cup {<<10, -11, 2>>}

Eigenvalues == 1..MaxEig

\* the Hermitian matrices given to matrix_ufunc: every spectrum on either basis
Matrices == {MatMul(w, B) : w \in [Dim -> Eigenvalues], B \in {AxisBasis, TiltedBasis}}

IsEigenvector(m, lambda, x) == MatVec(m, x) = [i \in Dim |-> Unit * Unit * lambda * x[i]]

\* np.linalg.eig(mat): eigenvalues in any order, each with a unit
\* eigenvector, the eigenvectors linearly independent.  The eigenvectors of
\* a repeated eigenvalue need not be orthogonal (numpy promises a unitary
\* eigenvector matrix for eigh only).
Eig(m) ==
    {o \in [eigvals : [Dim -> Eigenvalues], eigcols : [Dim -> UnitVectors]] :
        /\ \A k \in Dim : IsEigenvector(m, o.eigvals[k], o.eigcols[k])
        /\ Det3(o.eigcols) # 0}

\* np.linalg.eigh(mat): eigenvalues ascending, eigenvectors orthonormal
Eigh(m) ==
    {o \in Eig(m) :
        /\ o.eigvals[1] <= o.eigvals[2] /\ o.eigvals[2] <= o.eigvals[3]
        /\ \A k, l \in Dim : k # l => Dot(o.eigcols[k], o.eigcols[l]) = 0}

\* the scalar functions given as op
Ops == {"identity", "square"}

ApplyOp(op, x) == IF op = "identity" THEN x ELSE x * x

NoMatrix == [i \in Dim |-> [j \in Dim |-> 0]]

\* One call of matrix_ufunc:
\*   SAVE_ERRORS   the module's flag when the call is made
\*   pc      "idle": no call; "try": before the decomposition; "except": it
\*           raised; "raise": at the bare raise of the handler;
\*           "decomposed"; "returned"; "raised"
\*   saved   the 'matrices' dataset of the file written, <<>> if none
\*   error   the exception that left the function
UfuncState(SAVE_ERRORS, op, mat, hermitian, with_diagonals, pc_) ==
    [SAVE_ERRORS |-> SAVE_ERRORS, op |-> op, mat |-> mat, hermitian |-> hermitian,
     with_diagonals |-> with_diagonals, pc |-> pc_,
     eigvals |-> <<0, 0, 0>>, eigcols |-> AxisBasis, saved |-> <<>>, error |-> "",
     op_mat |-> NoMatrix, op_eigvals |-> <<>>]

UfuncIdle == UfuncState(TRUE, "identity", NoMatrix, FALSE, FALSE, "idle")

\* ------------------------------------------------ get_ilogus_and_valid_it
\* Eigenphases in microradians.
Pi == 3141593

Margin == 100000

\* the eigenphases of one eigenvalue at one time: well inside a branch cut's
\* margin, exactly on the margin, and far from both cuts
PhaseValues == {0 - Pi + 50000, 0 - Pi + Margin, 0, Pi - Margin, Pi - 50000}

\* ilogvs[it] for two eigenvalues
Eigenphases == [1..2 -> PhaseValues]

\* an ilogvs far from the cuts
Quiet == [k \in 1..2 |-> 0]

\* The trajectories given: any of 1..MaxTail time points, after a start of
\* 0..MaxQuiet time points far from the cuts.
Trajectories ==
    {[it \in 1..(q + n) |-> IF it <= q THEN Quiet ELSE tail[it - q]] :
        q \in 0..MaxQuiet, n \in 1..MaxTail, tail \in [1..MaxTail -> Eigenphases]}

\* np.amin(ilogvs, axis=1)[it] and np.amax(ilogvs, axis=1)[it]
Amin(row) == IF row[1] <= row[2] THEN row[1] ELSE row[2]

Amax(row) == IF row[1] >= row[2] THEN row[1] ELSE row[2]

\* IlogvExt without the sign flip of the maximum
IlogvExt_NoFlip(ilogvs, pass) ==
    [it \in 1..Len(ilogvs) |-> IF pass = 1 THEN Amin(ilogvs[it]) ELSE Amax(ilogvs[it])]

\* the two passes of the loop: np.amin(ilogvs, axis=1), -np.amax(ilogvs, axis=1)
IlogvExt(ilogvs, pass) ==
    [it \in 1..Len(ilogvs) |-> IF pass = 1 THEN Amin(ilogvs[it]) ELSE 0 - Amax(ilogvs[it])]

\* UpdateValid taking the last hit instead of the first
UpdateValid_LastHit(last_valid_it, ilogv_ext) ==
    LET hits_minus_pi == {it \in 0..(Len(ilogv_ext) - 1) : ilogv_ext[it + 1] < 0 - Pi + Margin}
    IN  IF hits_minus_pi # {}
        THEN LET last == CHOOSE it \in hits_minus_pi : \A other \in hits_minus_pi : other <= it
             IN  IF last_valid_it <= last THEN last_valid_it ELSE last
        ELSE last_valid_it

\* hits_minus_pi = (ilogv_ext < -np.pi + margin).nonzero()[0];
\* if len(hits_minus_pi) != 0: last_valid_it = min(last_valid_it, hits_minus_pi[0])
\* (time indices count from 0)
UpdateValid(last_valid_it, ilogv_ext) ==
    LET hits_minus_pi == {it \in 0..(Len(ilogv_ext) - 1) : ilogv_ext[it + 1] < 0 - Pi + Margin}
    IN  IF hits_minus_pi # {}
        THEN LET first == CHOOSE it \in hits_minus_pi : \A other \in hits_minus_pi : it <= other
             IN  IF last_valid_it <= first THEN last_valid_it ELSE first
        ELSE last_valid_it

\* last_valid_it as the whole loop leaves it (heff/common.py:14-19)
GetLastValidIt(ilogvs) ==
    UpdateValid(UpdateValid(Len(ilogvs), IlogvExt(ilogvs, 1)), IlogvExt(ilogvs, 2))

\* One call of get_ilogus_and_valid_it:
\*   ilogvs   the eigenphases matrix_angle gave, one row per time point
\*   pc       "idle": no call; "call"; "loop": in the loop, before pass
\*            number pass; "returned"
HeffState(ilogvs, pc_) == [ilogvs |-> ilogvs, pc |-> pc_, pass |-> 1, last_valid_it |-> 0]

HeffIdle == HeffState(<<>>, "idle")

\* ------------------------------------------------ inspect_iterative_fit
\* inspect_iterative_fit reads the arrays an iterative fit stored, one row
\* per iteration iloop and one column per basis element ibase, and works on
\* each row alone (max over axis 1, argsort over the last axis).  The model
\* holds one row.  Rates and residuals are integers; a ratio is a pair
\* <<numerator, denominator>> with a positive denominator.  Basis elements
\* are 1..MaxBasis (Python's ibase + 1).
BasisIndices == 1..MaxBasis

Abs(x) == IF x < 0 THEN 0 - x ELSE x

\* r > q for two ratios
Greater(r, q) == r[1] * q[2] > q[1] * r[2]

\* np.amax(np.abs(heff_coeffs), axis=1)
MaxHeffCoeff(row) == CHOOSE m \in {Abs(row[i]) : i \in BasisIndices} : \A i \in BasisIndices : m >= Abs(row[i])

\* np.divide(np.abs(coeffs), max_heff_coeff, out=coeff_ratio, where=(max_heff_coeff > 0.))
\* on coeff_ratio = np.zeros_like(coeffs)
CoeffRatio(f, ibase) ==
    IF MaxHeffCoeff(f.heff_coeffs) > 0
    THEN <<Abs(f.coeffs[ibase]), MaxHeffCoeff(f.heff_coeffs)>>
    ELSE <<0, 1>>

IsUpdateCandidate_EveryIteration(f, ibase) ==
    /\ f.success[ibase]
    /\ f.com[ibase] < f.max_com
    /\ \/ Greater(CoeffRatio(f, ibase), f.min_coeff_ratio)
       \/ f.last_valid_it # f.ntimes

\* is_update_candidate = success & (com < max_com)
\* is_update_candidate[1:] &= coeff_nonnegligible[1:] | (last_valid_it[1:, None] != tlist.shape[0])
IsUpdateCandidate(f, ibase) ==
    /\ f.success[ibase]
    /\ f.com[ibase] < f.max_com
    /\ f.iloop >= 1 =>
         \/ Greater(CoeffRatio(f, ibase), f.min_coeff_ratio)
         \/ f.last_valid_it # f.ntimes

\* np.where(is_update_candidate, -np.abs(coeffs), 0.)
UpdateKey(f, ibase) == IF f.is_update_candidate[ibase] THEN 0 - Abs(f.coeffs[ibase]) ELSE 0

OrderOfBasis == {p \in [BasisIndices -> BasisIndices] : \A i, j \in BasisIndices : p[i] = p[j] => i = j}

\* np.argsort: an order of the indices along which the keys ascend.  The
\* default kind is not a stable sort, so equal keys come in any order.
Argsort(f) ==
    {p \in OrderOfBasis :
        \A i \in 1..(MaxBasis - 1) : UpdateKey(f, p[i]) <= UpdateKey(f, p[i + 1])}

NumCandidates_Cap(f) == f.num_update_per_iteration

\* num_candidates = min(num_update_per_iteration, np.count_nonzero(is_update_candidate[iloop]))
NumCandidates(f) ==
    LET count == Cardinality({ibase \in BasisIndices : f.is_update_candidate[ibase]})
    IN  IF f.num_update_per_iteration < count THEN f.num_update_per_iteration ELSE count

\* selected = update_indices[iloop, :num_candidates]
Selected(f) == SubSeq(f.update_indices, 1, NumCandidates(f))

\* One row of the stored arrays and what the inspection computes from it:
\*   pc   "idle": not called; "read": the file is read; "marked":
\*        is_update_candidate is set; "sorted": update_indices is set;
\*        "selected": the loop body has set selected
FitState(iloop, success, com, coeffs, heff_coeffs, last_valid_it, num_update_per_iteration, pc_) ==
    [iloop |-> iloop, success |-> success, com |-> com, coeffs |-> coeffs,
     heff_coeffs |-> heff_coeffs, last_valid_it |-> last_valid_it, ntimes |-> 3,
     max_com |-> 1, min_coeff_ratio |-> <<1, 2>>,
     num_update_per_iteration |-> num_update_per_iteration,
     is_update_candidate |-> [ibase \in BasisIndices |-> FALSE],
     update_indices |-> <<>>, selected |-> <<>>, pc |-> pc_]

FitIdle ==
    FitState(0, [i \in BasisIndices |-> FALSE], [i \in BasisIndices |-> 0], [i \in BasisIndices |-> 0],
             [i \in BasisIndices |-> 0], 3, 1, "idle")

\* ------------------------------------- the iterative extraction engine
\* One run of the engine (spec.md section 4.4; its code is not part of the
\* sources at hand, inspect_iterative_fit reads what it stored):
\*   pc          "idle": no run; "Start", "ExtractGenerator", "Decompose",
\*               "Fit", "Select", "ReconstructResidual", "Done"; "Aborted":
\*               a decomposition failure ended the run
\*   iloop       iterations completed
\*   cap         the iteration cap
\*   row         the fit state of the current iteration
\*   report      how the run ended: "", "no candidates" or "iteration cap"
EngineState(cap, num_update_per_iteration, pc_) ==
    [pc |-> pc_, iloop |-> 0, cap |-> cap, num_update_per_iteration |-> num_update_per_iteration,
     row |-> FitIdle, num_selected |-> 0, report |-> ""]

EngineIdle == EngineState(1, 1, "idle")

\* ----------------------------------------------- OscillationFunction
\* ParameterExpression.parameters: the names of the parameters of a value,
\* one per parameter, in a fixed order
ParamOrder == <<"f", "xi", "a", "phi">>

ParametersOf(v) ==
    LET Keep(name) == v.c[name] # 0
    IN  SelectSeq(ParamOrder, Keep)

\* ParameterExpression.evaluate(args): args[i] is the value of parameters[i]
RECURSIVE EvaluateArgs(_, _, _)
EvaluateArgs(v, args, n) ==
    IF n = 0 THEN v.n ELSE EvaluateArgs(v, args, n - 1) + v.c[ParametersOf(v)[n]] * args[n]

\* the numeric backends config.npmod can be
Backends == {"numpy", "jax.numpy"}

\* config.npmod.cos, config.npmod.sin: a function of the backend config.npmod
\* is at the time the expression is evaluated
NpmodOp(npmod, name) == [backend |-> npmod, name |-> name]

\* ExpFunction._op: a function that reads config.npmod when it is called
ExpFunctionOp == [backend |-> "config.npmod", name |-> "exp"]

\* op(x) under the configuration of the time of the call
CallOp(op, x, npmod) ==
    [op |-> op.name, backend |-> IF op.backend = "config.npmod" THEN npmod ELSE op.backend, x |-> x]

\* OscillationFunction.__init__: the strategy and the parameter tuple
OscillationFunction(op, frequency, phase) ==
    [op |-> op, frequency |-> frequency, phase |-> phase,
     fn |-> IF IsDeferred(frequency)
            THEN IF IsDeferred(phase) THEN "_fn_PE_PE" ELSE "_fn_PE_float"
            ELSE IF IsDeferred(phase) THEN "_fn_float_PE" ELSE "_fn_float_float",
     parameters |-> IF IsDeferred(frequency)
                    THEN IF IsDeferred(phase)
                         THEN ParametersOf(frequency) \o ParametersOf(phase)
                         ELSE ParametersOf(frequency)
                    ELSE IF IsDeferred(phase) THEN ParametersOf(phase) ELSE <<>>]

CosFunction(npmod, frequency, phase) == OscillationFunction(NpmodOp(npmod, "cos"), frequency, phase)

SinFunction(npmod, frequency, phase) == OscillationFunction(NpmodOp(npmod, "sin"), frequency, phase)

ExpFunction(npmod, frequency, phase) == OscillationFunction(ExpFunctionOp, frequency, phase)

FnPEPE_SameArgs(self, t, args, npmod) ==
    LET freq_n_params == Len(ParametersOf(self.frequency))
    IN  CallOp(self.op,
               EvaluateArgs(self.frequency, SubSeq(args, 1, freq_n_params), freq_n_params) * t
                   + EvaluateArgs(self.phase, args, Len(ParametersOf(self.phase))),
               npmod)

\* _fn_PE_PE
FnPEPE(self, t, args, npmod) ==
    LET freq_n_params == Len(ParametersOf(self.frequency))
    IN  CallOp(self.op,
               EvaluateArgs(self.frequency, SubSeq(args, 1, freq_n_params), freq_n_params) * t
                   + EvaluateArgs(self.phase, SubSeq(args, freq_n_params + 1, Len(args)),
                                  Len(ParametersOf(self.phase))),
               npmod)

\* _fn_PE_float
FnPEfloat(self, t, args, npmod) ==
    CallOp(self.op, EvaluateArgs(self.frequency, args, Len(ParametersOf(self.frequency))) * t + self.phase.n, npmod)

\* _fn_float_PE
FnfloatPE(self, t, args, npmod) ==
    CallOp(self.op, self.frequency.n * t + EvaluateArgs(self.phase, args, Len(ParametersOf(self.phase))), npmod)

\* _fn_float_float
Fnfloatfloat(self, t, args, npmod) == CallOp(self.op, self.frequency.n * t + self.phase.n, npmod)

\* TimeFunction.__call__(t, args): the strategy chosen at construction
CallFn(self, t, args, npmod) ==
    CASE self.fn = "_fn_PE_PE" -> FnPEPE(self, t, args, npmod)
      [] self.fn = "_fn_PE_float" -> FnPEfloat(self, t, args, npmod)
      [] self.fn = "_fn_float_PE" -> FnfloatPE(self, t, args, npmod)
      [] OTHER -> Fnfloatfloat(self, t, args, npmod)

\* The configuration and one function built under it:
\*   npmod      config.npmod now
\*   cls        the class constructed
\*   built      config.npmod when the function was constructed
\*   self       the function
\*   t, args    the arguments of its evaluation, value what it returned
\*   pc         "idle"; "config": nothing constructed; "constructed";
\*              "evaluated"
OscState(npmod, pc_) ==
    [npmod |-> npmod, cls |-> "", built |-> npmod,
     self |-> OscillationFunction(NpmodOp(npmod, ""), Num(0), Num(0)),
     t |-> 0, args |-> <<>>, value |-> CallOp(NpmodOp(npmod, ""), 0, npmod), pc |-> pc_]

OscIdle == OscState("numpy", "idle")

\* ------------------------------------------------- DriveTerm.__init__
\* One construction of a DriveTerm.  An argument that can be None is None or
\* <<value>>.
\*   frequency, amplitude, constant_phase, sequence    the arguments
\*   self_sequence, self_constant_phase                self._sequence, self.constant_phase
\*   error    the exception raised, "" if none
\*   pc       "idle"; "call"; "constructed"; "raised"
TermState(frequency_, amplitude, constant_phase_, sequence, pc_) ==
    [frequency |-> frequency_, amplitude |-> amplitude, constant_phase |-> constant_phase_,
     sequence |-> sequence, self_sequence |-> <<>>, self_constant_phase |-> None,
     error |-> "", pc |-> pc_]

TermIdle == TermState(None, None, None, None, "idle")

\* DriveTerm.__init__
DriveTermInit(t) ==
    IF t.sequence = None
    THEN IF t.frequency = None \/ t.amplitude = None
         THEN [t EXCEPT !.pc = "raised",
                        !.error = "RuntimeError: Frequency and amplitude must be set if not using a PulseSequence."]
         ELSE [t EXCEPT !.pc = "constructed",
                        !.self_sequence = <<SetFrequency(t.frequency[1]), t.amplitude[1]>>,
                        !.self_constant_phase = t.constant_phase]
    ELSE LET copy == t.sequence[1]
         IN  IF t.frequency = None
             THEN [t EXCEPT !.pc = "constructed", !.self_sequence = copy, !.self_constant_phase = None]
             ELSE IF copy = <<>>
             THEN [t EXCEPT !.pc = "raised", !.error = "IndexError: list index out of range"]
             ELSE IF copy[1].op # "SetFrequency"
             THEN [t EXCEPT !.pc = "constructed",
                            !.self_sequence = <<SetFrequency(t.frequency[1])>> \o copy,
                            !.self_constant_phase = None]
             ELSE [t EXCEPT !.pc = "constructed", !.self_sequence = copy, !.self_constant_phase = None]

\* ----------------------------------------------------------- pulse_sim
\* parallel_params = [hgen, tlist, psi0, args, e_ops, rwa, keep_callable]
ParallelParams == <<"hgen", "tlist", "psi0", "args", "e_ops", "rwa", "keep_callable">>

ParamIndices == 1..Len(ParallelParams)

\* A parameter as the caller gives it: one value, or a list of values.  The
\* value of parameter name for task itask is <<name, itask>>, the single value
\* of a parameter that is not a list is <<name, 0>>.
SingleParam(name) == [list |-> FALSE, value |-> <<name, 0>>]

ListParam(name, n) == [list |-> TRUE, value |-> [itask \in 1..n |-> <<name, itask>>]]

\* [param] * num_tasks
Repeat(param, num_tasks) == [list |-> TRUE, value |-> [itask \in 1..num_tasks |-> param.value]]

\* list(zip(zip_list)): zip of the one iterable zip_list, one 1-tuple per
\* entry of zip_list, holding that whole entry
Zip(zip_list) == [k \in ParamIndices |-> <<zip_list[k][1].value>>]

\* One call of pulse_sim:
\*   params      parallel_params
\*   iparam      parameters the first loop has seen
\*   num_tasks   None or <<n>>
\*   zip_list    one entry per parameter seen: None or <<the list>>
\*   job_args    the args handed to parallel_map, kwarg_values likewise
\*   runs        calls of _run_single made by pulse_sim itself
\*   pc          "idle"; "scan": in the first loop; "dispatch": after it;
\*               "returned"; "raised"
SimState(params, pc_) ==
    [params |-> params, iparam |-> 0, num_tasks |-> None, zip_list |-> <<>>,
     job_args |-> <<>>, kwarg_values |-> <<>>, runs |-> 0, mapped |-> FALSE, error |-> "", pc |-> pc_]

SimIdle == SimState([k \in ParamIndices |-> SingleParam(ParallelParams[k])], "idle")

\* ------------------------------------------------------------ the state
VARIABLES
    seq,              \* DriveTerm._sequence
    constant_phase,   \* DriveTerm.constant_phase
    solver,           \* config.pulse_sim_solver
    pc,               \* "idle": constructed; "loop", "merge": inside generate_fn;
                      \* "returned", "raised": generate_fn is over;
                      \* "frequency": the frequency property has been read
    rwa,              \* generate_fn's argument
    frame_frequency,  \* generate_fn's argument
    idx,              \* number of instructions the loop has completed
    frequency,        \* generate_fn's locals
    phase_offset,
    time,
    funclist,
    error,            \* the exception generate_fn raised, "" if none
    fn_x,             \* the pair generate_fn returned
    fn_y,
    prop,             \* the value the frequency property returned
    single,           \* one call of generate_single on its own: the arguments,
                      \* the pair it returned, the pair with its parameters bound
    ufunc,            \* one call of matrix_ufunc
    heff,             \* one call of get_ilogus_and_valid_it
    fit,              \* one call of inspect_iterative_fit, one iteration's row
    engine,           \* one run of the iterative extraction engine
    oscfn,            \* config.npmod and one OscillationFunction
    term,             \* one construction of a DriveTerm
    sim               \* one call of pulse_sim

vars ==
    <<seq, constant_phase, solver, pc, rwa, frame_frequency, idx, frequency,
      phase_offset, time, funclist, error, fn_x, fn_y, prop, single, ufunc, heff,
      fit, engine, oscfn, term, sim>>

\* the state of generate_fn and of the frequency property
walk ==
    <<seq, constant_phase, solver, pc, rwa, frame_frequency, idx, frequency,
      phase_offset, time, funclist, error, fn_x, fn_y, prop>>

FrameFrequencies == {0, 1}

Solvers == {"qutip", "jax"}

\* constant_phase values a caller passes besides None
ConstantPhases == {<<1>>}

\* DriveTerm.__init__: with a sequence, constant_phase is None; without one,
\* the sequence is [SetFrequency(frequency), amplitude] and constant_phase is
\* the argument.
Init ==
    /\ seq \in DriveSequences
    /\ constant_phase \in
         IF Len(seq) = 2 /\ seq[1].op = "SetFrequency" /\ IsAmplitude(seq[2])
         THEN {None} \cup ConstantPhases
         ELSE {None}
    /\ solver \in Solvers
    /\ pc = "idle"
    /\ rwa = FALSE
    /\ frame_frequency = 0
    /\ idx = 0
    /\ frequency = None
    /\ phase_offset = 0
    /\ time = 0
    /\ funclist = <<>>
    /\ error = ""
    /\ fn_x = NoneCoef
    /\ fn_y = NoneCoef
    /\ prop = None
    /\ single = SingleIdle
    /\ ufunc = UfuncIdle
    /\ heff = HeffIdle
    /\ fit = FitIdle
    /\ engine = EngineIdle
    /\ oscfn = OscIdle
    /\ term = TermIdle
    /\ sim = SimIdle

\* The arguments of generate_fn and the configuration it reads; the numbers
\* of this state as values.  np_isclose is never consulted: no value of a
\* sequence is deferred here.
Env ==
    [rwa |-> rwa, frame_frequency |-> Num(frame_frequency), solver |-> solver,
     constant_phase |-> IF constant_phase = None THEN None ELSE <<Num(constant_phase[1])>>,
     np_isclose |-> "TypeError"]

Cur ==
    [frequency |-> frequency, phase_offset |-> phase_offset, time |-> time,
     funclist |-> funclist, pc |-> "loop", error |-> ""]

\* generate_fn is entered: the locals are set, the loop starts
Call(r, ff) ==
    /\ pc = "idle"
    /\ rwa' = r
    /\ frame_frequency' = ff
    /\ frequency' = None
    /\ phase_offset' = 0
    /\ time' = 0
    /\ funclist' = <<>>
    /\ idx' = 0
    /\ pc' = IF seq = <<>> THEN "merge" ELSE "loop"
    /\ UNCHANGED <<seq, constant_phase, solver, error, fn_x, fn_y, prop>>
    /\ UNCHANGED <<single, ufunc, heff, fit, engine, oscfn, term, sim>>

\* The loop has run one iteration, which left the locals as w.
Iterated(w) ==
    /\ frequency' = w.frequency
    /\ phase_offset' = w.phase_offset
    /\ time' = w.time
    /\ funclist' = w.funclist
    /\ error' = w.error
    /\ idx' = IF w.pc = "raised" THEN idx ELSE idx + 1
    /\ pc' = CASE w.pc = "raised" -> "raised"
               [] w.pc = "break" -> "merge"
               [] idx + 1 = Len(seq) -> "merge"
               [] OTHER -> "loop"
    /\ UNCHANGED <<seq, constant_phase, solver, rwa, frame_frequency, fn_x, fn_y, prop>>
    /\ UNCHANGED <<single, ufunc, heff, fit, engine, oscfn, term, sim>>

Looping(op) == pc = "loop" /\ idx < Len(seq) /\ seq[idx + 1].op = op

StepShiftFrequency ==
    /\ Looping("ShiftFrequency")
    /\ Iterated(ShiftFrequencyBranch(Cur, seq[idx + 1]))

StepShiftPhase ==
    /\ Looping("ShiftPhase")
    /\ Iterated(ShiftPhaseBranch(Cur, seq[idx + 1]))

StepSetFrequency ==
    /\ Looping("SetFrequency")
    /\ Iterated(SetFrequencyBranch(Cur, seq[idx + 1]))

StepSetPhase ==
    /\ Looping("SetPhase")
    /\ Iterated(SetPhaseBranch(Cur, seq[idx + 1]))

StepDelay ==
    /\ Looping("Delay")
    /\ Iterated(DelayBranch(Cur, seq[idx + 1]))

StepAmplitude ==
    /\ pc = "loop" /\ idx < Len(seq) /\ IsAmplitude(seq[idx + 1])
    /\ Iterated(AmplitudeBranch(Cur, seq[idx + 1], Env))

\* After the loop: the terminating entry is appended and the intervals merged.
Merge ==
    /\ pc = "merge"
    /\ LET fl == Append(funclist, Interval(time, NoneCoef, NoneCoef))
           r == MergeFunclist(fl)
       IN  /\ funclist' = fl
           /\ error' = r.err
           /\ fn_x' = r.x
           /\ fn_y' = r.y
           /\ pc' = IF r.err = "" THEN "returned" ELSE "raised"
    /\ UNCHANGED <<seq, constant_phase, solver, rwa, frame_frequency, idx, frequency,
                   phase_offset, time, prop>>
    /\ UNCHANGED <<single, ufunc, heff, fit, engine, oscfn, term, sim>>

\* The frequency property is read.
ReadFrequency ==
    /\ pc = "idle"
    /\ prop' = Frequency(seq)
    /\ pc' = "frequency"
    /\ UNCHANGED <<seq, constant_phase, solver, rwa, frame_frequency, idx, frequency,
                   phase_offset, time, funclist, error, fn_x, fn_y>>
    /\ UNCHANGED <<single, ufunc, heff, fit, engine, oscfn, term, sim>>

Next ==
    \/ \E r \in BOOLEAN, ff \in FrameFrequencies : Call(r, ff)
    \/ StepShiftFrequency
    \/ StepShiftPhase
    \/ StepSetFrequency
    \/ StepSetPhase
    \/ StepDelay
    \/ StepAmplitude
    \/ Merge
    \/ ReadFrequency

Spec == Init /\ [][Next]_vars

\* ------------------------------------- generate_single, called on its own
\* Text amplitudes that are not static expressions: one that refers to the
\* time symbol, one without the character t, one with the character t in a
\* function name only.
SingleTexts == {"A * t", "A", "sqrt(A)"}

SingleAmplitudes ==
    {FloatAmp(1), ParamAmp("a"), ArrayAmp(<<1, 2>>), PulseAmp(2), CallableAmp, IntAmp(1)}
        \cup {StrAmp(s) : s \in SingleTexts}

\* The frequency a sequence leaves: a number, or the Parameter of a
\* SetFrequency
SingleFrequencies == {Num(v) : v \in SetFrequencyValues} \cup {Parameter("f")}

\* ... or the ParameterExpression that a ShiftFrequency makes of it
ShiftedFrequencies == SingleFrequencies \cup {Add(Parameter("f"), Num(1))}

SinglePhaseOffsets == {0, 1}

SingleTzeros == {0, 2}

SingleConstantPhases == {None, <<Num(1)>>, <<Parameter("phi")>>}

\* the numbers the parameters get bound to
BindValues == {1, 2}

SingleCalls(frequencies, frame_frequencies, outcomes) ==
    {SingleState(a, f, ff, p, tz, cp, s, r, o, b, "call") :
        a \in SingleAmplitudes, f \in frequencies, ff \in frame_frequencies,
        p \in SinglePhaseOffsets, tz \in SingleTzeros, cp \in SingleConstantPhases,
        s \in Solvers, r \in BOOLEAN, o \in outcomes, b \in BindValues}

\* generate_single is about to be called with arguments of the declared
\* types: frame_frequency a number, frequency a number or a Parameter
InitSingle ==
    /\ single \in SingleCalls(SingleFrequencies, {Num(ff) : ff \in FrameFrequencies}, {"TypeError"})
    /\ seq = <<>>
    /\ constant_phase = None
    /\ solver = "qutip"
    /\ pc = "idle"
    /\ rwa = FALSE
    /\ frame_frequency = 0
    /\ idx = 0
    /\ frequency = None
    /\ phase_offset = 0
    /\ time = 0
    /\ funclist = <<>>
    /\ error = ""
    /\ fn_x = NoneCoef
    /\ fn_y = NoneCoef
    /\ prop = None
    /\ ufunc = UfuncIdle
    /\ heff = HeffIdle
    /\ fit = FitIdle
    /\ engine = EngineIdle
    /\ oscfn = OscIdle
    /\ term = TermIdle
    /\ sim = SimIdle

\* ... or with a deferred frame frequency or a shifted deferred frequency
\* among them
InitDeferred ==
    /\ single \in SingleCalls(ShiftedFrequencies,
                               {Num(ff) : ff \in FrameFrequencies} \cup {Parameter("xi")},
                               IsCloseOutcomes)
    /\ seq = <<>>
    /\ constant_phase = None
    /\ solver = "qutip"
    /\ pc = "idle"
    /\ rwa = FALSE
    /\ frame_frequency = 0
    /\ idx = 0
    /\ frequency = None
    /\ phase_offset = 0
    /\ time = 0
    /\ funclist = <<>>
    /\ error = ""
    /\ fn_x = NoneCoef
    /\ fn_y = NoneCoef
    /\ prop = None
    /\ ufunc = UfuncIdle
    /\ heff = HeffIdle
    /\ fit = FitIdle
    /\ engine = EngineIdle
    /\ oscfn = OscIdle
    /\ term = TermIdle
    /\ sim = SimIdle

\* the arguments and configuration of the call in state s
SingleEnv(s) ==
    [rwa |-> s.rwa, frame_frequency |-> s.frame_frequency, solver |-> s.solver,
     constant_phase |-> s.constant_phase, np_isclose |-> s.np_isclose]

\* value.evaluate(): a number stays, a deferred value becomes its number
Bind(v, b) == IF v.type = "repr" THEN v ELSE Evaluate(v, b)

\* a coefficient with every parameter it still refers to bound to b
BindCoef(c, b) ==
    [c EXCEPT !.inst = IF @.op = "Parameter" THEN FloatAmp(b) ELSE @,
              !.osc = Bind(@, b),
              !.frame = Bind(@, b),
              !.cphase = IF @ = None THEN None ELSE <<Bind(@[1], b)>>]

BindSingle(r, b) == [r EXCEPT !.x = BindCoef(@, b), !.y = BindCoef(@, b)]

\* the call of state s with b put for every parameter among its arguments
Substituted(s, b) ==
    [s EXCEPT !.amplitude = IF @.op = "Parameter" THEN FloatAmp(b) ELSE @,
              !.frequency = Evaluate(@, b),
              !.frame_frequency = Evaluate(@, b),
              !.constant_phase = IF @ = None THEN None ELSE <<Evaluate(@[1], b)>>]

\* generate_single(amplitude, frequency, frame_frequency, drive_base, tzero)
Compile ==
    /\ single.pc = "call"
    /\ single' = [single EXCEPT
                      !.fn = GenerateSingle(SingleEnv(single), single.amplitude, single.frequency,
                                            single.phase_offset, single.tzero),
                      !.pc = "compiled"]
    /\ UNCHANGED <<walk, ufunc, heff, fit, engine, oscfn, term, sim>>

\* the parameters of the returned pair are bound
BindParameters ==
    /\ single.pc = "compiled"
    /\ single' = [single EXCEPT !.bound = BindSingle(single.fn, single.value), !.pc = "bound"]
    /\ UNCHANGED <<walk, ufunc, heff, fit, engine, oscfn, term, sim>>

\* generate_single on the same arguments with the numbers put in beforehand
CompileSubstituted ==
    /\ single.pc = "bound"
    /\ LET s == Substituted(single, single.value)
       IN  single' = [single EXCEPT
                         !.direct = GenerateSingle(SingleEnv(s), s.amplitude, s.frequency,
                                                   s.phase_offset, s.tzero),
                         !.pc = "done"]
    /\ UNCHANGED <<walk, ufunc, heff, fit, engine, oscfn, term, sim>>

NextSingle ==
    \/ Compile
    \/ BindParameters
    \/ CompileSubstituted

SpecSingle == InitSingle /\ [][NextSingle]_vars

SpecDeferred == InitDeferred /\ [][NextSingle]_vars

\* ------------------------------------------------- matrix_ufunc, called
InitUfunc ==
    /\ ufunc \in {UfuncState(s, op, m, h, d, "try") :
                      s \in BOOLEAN, op \in Ops, m \in Matrices, h \in BOOLEAN, d \in BOOLEAN}
    /\ seq = <<>>
    /\ constant_phase = None
    /\ solver = "qutip"
    /\ pc = "idle"
    /\ rwa = FALSE
    /\ frame_frequency = 0
    /\ idx = 0
    /\ frequency = None
    /\ phase_offset = 0
    /\ time = 0
    /\ funclist = <<>>
    /\ error = ""
    /\ fn_x = NoneCoef
    /\ fn_y = NoneCoef
    /\ prop = None
    /\ single = SingleIdle
    /\ heff = HeffIdle
    /\ fit = FitIdle
    /\ engine = EngineIdle
    /\ oscfn = OscIdle
    /\ term = TermIdle
    /\ sim = SimIdle

\* eigvals, eigcols = npmod.linalg.eigh(mat) or npmod.linalg.eig(mat)
Decompose ==
    /\ ufunc.pc = "try"
    /\ \E o \in IF ufunc.hermitian THEN Eigh(ufunc.mat) ELSE Eig(ufunc.mat) :
          ufunc' = [ufunc EXCEPT !.eigvals = o.eigvals, !.eigcols = o.eigcols, !.pc = "decomposed"]
    /\ UNCHANGED <<walk, single, heff, fit, engine, oscfn, term, sim>>

\* the decomposition raises (it did not converge)
DecomposeFails ==
    /\ ufunc.pc = "try"
    /\ ufunc' = [ufunc EXCEPT !.pc = "except"]
    /\ UNCHANGED <<walk, single, heff, fit, engine, oscfn, term, sim>>

\* if SAVE_ERRORS: the matrices are written to a file
SaveMatrices ==
    /\ ufunc.pc = "except"
    /\ ufunc.SAVE_ERRORS
    /\ ufunc' = [ufunc EXCEPT !.saved = <<ufunc.mat>>, !.pc = "raise"]
    /\ UNCHANGED <<walk, single, heff, fit, engine, oscfn, term, sim>>

\* if SAVE_ERRORS: ... but the file cannot be written, and the handler is
\* left with that exception
SaveFails ==
    /\ ufunc.pc = "except"
    /\ ufunc.SAVE_ERRORS
    /\ ufunc' = [ufunc EXCEPT !.error = "OSError", !.pc = "raised"]
    /\ UNCHANGED <<walk, single, heff, fit, engine, oscfn, term, sim>>

\* SAVE_ERRORS is False: nothing is written
SkipSave ==
    /\ ufunc.pc = "except"
    /\ ~ufunc.SAVE_ERRORS
    /\ ufunc' = [ufunc EXCEPT !.pc = "raise"]
    /\ UNCHANGED <<walk, single, heff, fit, engine, oscfn, term, sim>>

\* raise
Reraise ==
    /\ ufunc.pc = "raise"
    /\ ufunc' = [ufunc EXCEPT !.error = "LinAlgError", !.pc = "raised"]
    /\ UNCHANGED <<walk, single, heff, fit, engine, oscfn, term, sim>>

\* op_eigvals = op(eigvals); op_mat = eigcols * op_eigvals times eigrows
ApplyAndReturn ==
    /\ ufunc.pc = "decomposed"
    /\ LET op_eigvals == [k \in Dim |-> ApplyOp(ufunc.op, ufunc.eigvals[k])]
       IN  ufunc' = [ufunc EXCEPT
                        !.op_mat = MatMul(op_eigvals, ufunc.eigcols),
                        !.op_eigvals = IF ufunc.with_diagonals THEN op_eigvals ELSE <<>>,
                        !.pc = "returned"]
    /\ UNCHANGED <<walk, single, heff, fit, engine, oscfn, term, sim>>

NextUfunc ==
    \/ Decompose
    \/ DecomposeFails
    \/ SaveMatrices
    \/ SaveFails
    \/ SkipSave
    \/ Reraise
    \/ ApplyAndReturn

SpecUfunc == InitUfunc /\ [][NextUfunc]_vars

\* ------------------------------------- get_ilogus_and_valid_it, called
InitHeff ==
    /\ heff \in {HeffState(ilogvs, "call") : ilogvs \in Trajectories}
    /\ seq = <<>>
    /\ constant_phase = None
    /\ solver = "qutip"
    /\ pc = "idle"
    /\ rwa = FALSE
    /\ frame_frequency = 0
    /\ idx = 0
    /\ frequency = None
    /\ phase_offset = 0
    /\ time = 0
    /\ funclist = <<>>
    /\ error = ""
    /\ fn_x = NoneCoef
    /\ fn_y = NoneCoef
    /\ prop = None
    /\ single = SingleIdle
    /\ ufunc = UfuncIdle
    /\ fit = FitIdle
    /\ engine = EngineIdle
    /\ oscfn = OscIdle
    /\ term = TermIdle
    /\ sim = SimIdle

\* last_valid_it = ilogus.shape[0]
StartValid ==
    /\ heff.pc = "call"
    /\ heff' = [heff EXCEPT !.last_valid_it = Len(heff.ilogvs), !.pass = 1, !.pc = "loop"]
    /\ UNCHANGED <<walk, single, ufunc, fit, engine, oscfn, term, sim>>

\* one pass of the loop over the two extrema
ScanExtremum ==
    /\ heff.pc = "loop"
    /\ heff' = [heff EXCEPT
                    !.last_valid_it = UpdateValid(@, IlogvExt(heff.ilogvs, heff.pass)),
                    !.pass = @ + 1,
                    !.pc = IF heff.pass = 2 THEN "returned" ELSE "loop"]
    /\ UNCHANGED <<walk, single, ufunc, fit, engine, oscfn, term, sim>>

NextHeff ==
    \/ StartValid
    \/ ScanExtremum

SpecHeff == InitHeff /\ [][NextHeff]_vars

\* ------------------------------------- inspect_iterative_fit, called
\* no DriveTerm in use
WalkUnused ==
    /\ seq = <<>>
    /\ constant_phase = None
    /\ solver = "qutip"
    /\ pc = "idle"
    /\ rwa = FALSE
    /\ frame_frequency = 0
    /\ idx = 0
    /\ frequency = None
    /\ phase_offset = 0
    /\ time = 0
    /\ funclist = <<>>
    /\ error = ""
    /\ fn_x = NoneCoef
    /\ fn_y = NoneCoef
    /\ prop = None

\* The rows read from the file: rates in tenths (-0.9, 0, 0.5), heff_coeffs with
\* nothing accepted yet or with one rate of 1.0, residuals on either side of
\* max_com.
InitFit ==
    /\ fit \in {FitState(iloop, success, com, coeffs, heff_coeffs, last_valid_it, cap, "read") :
                  iloop \in 0..1, success \in [BasisIndices -> BOOLEAN],
                  com \in [BasisIndices -> 0..1], coeffs \in [BasisIndices -> {0 - 9, 0, 5}],
                  heff_coeffs \in {[i \in BasisIndices |-> 0], [i \in BasisIndices |-> IF i = 1 THEN 0 - 10 ELSE 0]},
                  last_valid_it \in 2..3, cap \in 1..2}
    /\ WalkUnused
    /\ single = SingleIdle
    /\ ufunc = UfuncIdle
    /\ heff = HeffIdle
    /\ engine = EngineIdle
    /\ oscfn = OscIdle
    /\ term = TermIdle
    /\ sim = SimIdle

\* inspection.py:97-104
MarkCandidates ==
    /\ fit.pc = "read"
    /\ fit' = [fit EXCEPT !.is_update_candidate = [ibase \in BasisIndices |-> IsUpdateCandidate(fit, ibase)],
                          !.pc = "marked"]
    /\ UNCHANGED <<walk, single, ufunc, heff, engine, oscfn, term, sim>>

\* inspection.py:106
SortUpdates ==
    /\ fit.pc = "marked"
    /\ \E p \in Argsort(fit) : fit' = [fit EXCEPT !.update_indices = p, !.pc = "sorted"]
    /\ UNCHANGED <<walk, single, ufunc, heff, engine, oscfn, term, sim>>

\* inspection.py:159-161
SelectUpdates ==
    /\ fit.pc = "sorted"
    /\ fit' = [fit EXCEPT !.selected = Selected(fit), !.pc = "selected"]
    /\ UNCHANGED <<walk, single, ufunc, heff, engine, oscfn, term, sim>>

NextFit ==
    \/ MarkCandidates
    \/ SortUpdates
    \/ SelectUpdates

SpecFit == InitFit /\ [][NextFit]_vars

\* ------------------------------------------- a run of the engine
\* the fit states an iteration can find: every element fitted with rate 0.5
\* and a small residual, each fit succeeding or failing
EngineRows(iloop, num_update_per_iteration) ==
    {[FitState(iloop, success, [i \in BasisIndices |-> 0], [i \in BasisIndices |-> 5],
               [i \in BasisIndices |-> 0], last_valid_it, num_update_per_iteration, "read")
        EXCEPT !.heff_coeffs = IF iloop = 0 THEN @ ELSE [i \in BasisIndices |-> IF i = 1 THEN 0 - 10 ELSE 0]] :
        success \in [BasisIndices -> BOOLEAN], last_valid_it \in 2..3}

InitEngine ==
    /\ engine \in {EngineState(cap, n, "Start") : cap \in 1..MaxIterations, n \in 1..2}
    /\ WalkUnused
    /\ single = SingleIdle
    /\ ufunc = UfuncIdle
    /\ heff = HeffIdle
    /\ fit = FitIdle
    /\ oscfn = OscIdle
    /\ term = TermIdle
    /\ sim = SimIdle

EngineStart ==
    /\ engine.pc = "Start"
    /\ engine' = [engine EXCEPT !.pc = "ExtractGenerator"]
    /\ UNCHANGED <<walk, single, ufunc, heff, fit, oscfn, term, sim>>

\* Step 1: G(t) = -i log U(t) and last_valid_it
ExtractGenerator ==
    /\ engine.pc = "ExtractGenerator"
    /\ engine' = [engine EXCEPT !.pc = "Decompose"]
    /\ UNCHANGED <<walk, single, ufunc, heff, fit, oscfn, term, sim>>

\* the eigendecomposition of step 1 does not converge: the error propagates
ExtractFails ==
    /\ engine.pc = "ExtractGenerator"
    /\ engine' = [engine EXCEPT !.pc = "Aborted"]
    /\ UNCHANGED <<walk, single, ufunc, heff, fit, oscfn, term, sim>>

\* Step 2: the coefficient trajectories
DecomposeGenerator ==
    /\ engine.pc = "Decompose"
    /\ engine' = [engine EXCEPT !.pc = "Fit"]
    /\ UNCHANGED <<walk, single, ufunc, heff, fit, oscfn, term, sim>>

\* Step 3: the fit state of this iteration, computed afresh
FitRates ==
    /\ engine.pc = "Fit"
    /\ \E row \in EngineRows(engine.iloop, engine.num_update_per_iteration) :
          engine' = [engine EXCEPT !.row = row, !.pc = "Select"]
    /\ UNCHANGED <<walk, single, ufunc, heff, fit, oscfn, term, sim>>

\* Step 4: the candidates are marked and at most num_update_per_iteration of
\* them accepted; the run is over when none is accepted or when this was the
\* last iteration the cap allows
Select ==
    /\ engine.pc = "Select"
    /\ LET marked == [engine.row EXCEPT !.is_update_candidate =
                          [ibase \in BasisIndices |-> IsUpdateCandidate(engine.row, ibase)],
                                        !.pc = "marked"]
           n == NumCandidates(marked)
       IN  engine' = [engine EXCEPT
                          !.row = marked,
                          !.num_selected = n,
                          !.iloop = @ + 1,
                          !.pc = IF n = 0 \/ engine.iloop + 1 >= engine.cap
                                 THEN "Done" ELSE "ReconstructResidual",
                          !.report = IF n = 0 THEN "no candidates"
                                     ELSE IF engine.iloop + 1 >= engine.cap THEN "iteration cap"
                                     ELSE ""]
    /\ UNCHANGED <<walk, single, ufunc, heff, fit, oscfn, term, sim>>

\* Step 5: the residual series U(t) U_eff(t)^dagger
ReconstructResidual ==
    /\ engine.pc = "ReconstructResidual"
    /\ engine' = [engine EXCEPT !.pc = "ExtractGenerator"]
    /\ UNCHANGED <<walk, single, ufunc, heff, fit, oscfn, term, sim>>

NextEngine ==
    \/ EngineStart
    \/ ExtractGenerator
    \/ ExtractFails
    \/ DecomposeGenerator
    \/ FitRates
    \/ Select
    \/ ReconstructResidual

\* The engine is one sequential loop without suspension points: a step that
\* can be taken is taken.
SpecEngine == InitEngine /\ [][NextEngine]_vars /\ WF_vars(NextEngine)

\* ------------------------------ an OscillationFunction, built and called
InitOsc ==
    /\ oscfn \in {OscState(npmod, "config") : npmod \in Backends}
    /\ WalkUnused
    /\ single = SingleIdle
    /\ ufunc = UfuncIdle
    /\ heff = HeffIdle
    /\ fit = FitIdle
    /\ engine = EngineIdle
    /\ term = TermIdle
    /\ sim = SimIdle

\* the process-wide solver configuration is changed: config.npmod follows it
SetSolver ==
    /\ oscfn.pc \in {"config", "constructed"}
    /\ \E npmod \in Backends \ {oscfn.npmod} : oscfn' = [oscfn EXCEPT !.npmod = npmod]
    /\ UNCHANGED <<walk, single, ufunc, heff, fit, engine, term, sim>>

\* CosFunction(frequency, phase), SinFunction(...), ExpFunction(...)
Construct(cls, frequency_, phase) ==
    /\ oscfn.pc = "config"
    /\ oscfn' = [oscfn EXCEPT
                    !.cls = cls,
                    !.built = oscfn.npmod,
                    !.self = CASE cls = "CosFunction" -> CosFunction(oscfn.npmod, frequency_, phase)
                               [] cls = "SinFunction" -> SinFunction(oscfn.npmod, frequency_, phase)
                               [] OTHER -> ExpFunction(oscfn.npmod, frequency_, phase),
                    !.pc = "constructed"]
    /\ UNCHANGED <<walk, single, ufunc, heff, fit, engine, term, sim>>

\* the function is called with a time and one value per parameter
EvaluateFn(t, args) ==
    /\ oscfn.pc = "constructed"
    /\ Len(args) = Len(oscfn.self.parameters)
    /\ oscfn' = [oscfn EXCEPT !.t = t, !.args = args,
                              !.value = CallFn(oscfn.self, t, args, oscfn.npmod),
                              !.pc = "evaluated"]
    /\ UNCHANGED <<walk, single, ufunc, heff, fit, engine, term, sim>>

NextOsc ==
    \/ SetSolver
    \/ \E cls \in {"CosFunction", "SinFunction", "ExpFunction"},
          f \in {Num(1), Parameter("f"), Add(Parameter("f"), Parameter("xi"))},
          p \in {Num(0), Num(1), Parameter("phi"), Parameter("f")} : Construct(cls, f, p)
    \/ \E t \in 1..2, args \in UNION {[1..n -> BindValues] : n \in 0..3} : EvaluateFn(t, args)

SpecOsc == InitOsc /\ [][NextOsc]_vars

\* ------------------------------------------------ a DriveTerm, constructed
InitTerm ==
    /\ term \in {TermState(f, a, cp, s, "call") :
                    f \in {None, <<1>>},
                    a \in {None, <<FloatAmp(1)>>, <<StrAmp("A * t")>>},
                    cp \in {None} \cup ConstantPhases,
                    s \in {None} \cup {<<s>> : s \in UNION {[1..n -> {SetFrequency(1), SetFrequency(2), Delay(1), FloatAmp(1)}] : n \in 0..2}}}
    /\ WalkUnused
    /\ single = SingleIdle
    /\ ufunc = UfuncIdle
    /\ heff = HeffIdle
    /\ fit = FitIdle
    /\ engine = EngineIdle
    /\ oscfn = OscIdle
    /\ sim = SimIdle

ConstructTerm ==
    /\ term.pc = "call"
    /\ term' = DriveTermInit(term)
    /\ UNCHANGED <<walk, single, ufunc, heff, fit, engine, oscfn, sim>>

NextTerm == ConstructTerm

SpecTerm == InitTerm /\ [][NextTerm]_vars

\* ------------------------------------------------------ pulse_sim, called
InitSim ==
    /\ sim \in {SimState([k \in ParamIndices |->
                            IF lens[k] = 0 THEN SingleParam(ParallelParams[k])
                            ELSE ListParam(ParallelParams[k], lens[k])], "scan") :
                   lens \in [ParamIndices -> 0..MaxTasks]}
    /\ WalkUnused
    /\ single = SingleIdle
    /\ ufunc = UfuncIdle
    /\ heff = HeffIdle
    /\ fit = FitIdle
    /\ engine = EngineIdle
    /\ oscfn = OscIdle
    /\ term = TermIdle

\* one pass of the loop over parallel_params (pulse_sim.py:84-94)
ScanParam ==
    /\ sim.pc = "scan"
    /\ sim.iparam < Len(ParallelParams)
    /\ LET param == sim.params[sim.iparam + 1]
       IN  IF param.list
           THEN IF sim.num_tasks # None /\ sim.num_tasks[1] # Len(param.value)
                THEN sim' = [sim EXCEPT !.pc = "raised",
                                        !.error = "ValueError: Lists with inconsistent lengths passed as arguments"]
                ELSE sim' = [sim EXCEPT !.num_tasks = <<Len(param.value)>>,
                                        !.zip_list = Append(@, <<param>>),
                                        !.iparam = @ + 1]
           ELSE sim' = [sim EXCEPT !.zip_list = Append(@, None), !.iparam = @ + 1]
    /\ UNCHANGED <<walk, single, ufunc, heff, fit, engine, oscfn, term>>

\* the loop is over
EndScan ==
    /\ sim.pc = "scan"
    /\ sim.iparam = Len(ParallelParams)
    /\ sim' = [sim EXCEPT !.pc = "dispatch"]
    /\ UNCHANGED <<walk, single, ufunc, heff, fit, engine, oscfn, term>>

\* num_tasks is None: result = _run_single(hgen, tlist, ...) (pulse_sim.py:96-98)
RunSingle ==
    /\ sim.pc = "dispatch"
    /\ sim.num_tasks = None
    /\ sim' = [sim EXCEPT !.runs = @ + 1, !.pc = "returned"]
    /\ UNCHANGED <<walk, single, ufunc, heff, fit, engine, oscfn, term>>

\* otherwise the parameters that are not lists are repeated, the argument
\* list and kwarg_values are built and parallel_map is called
\* (pulse_sim.py:100-126)
MapTasks ==
    /\ sim.pc = "dispatch"
    /\ sim.num_tasks # None
    /\ LET num_tasks == sim.num_tasks[1]
           filled == [k \in ParamIndices |->
                         IF sim.zip_list[k] = None THEN <<Repeat(sim.params[k], num_tasks)>>
                         ELSE sim.zip_list[k]]
       IN  sim' = [sim EXCEPT
                      !.zip_list = filled,
                      !.job_args = Zip(filled),
                      !.kwarg_values = [itask \in 1..num_tasks |->
                                           <<itask>> \o (IF sim.params[2].list
                                                         THEN <<sim.params[2].value[itask]>> ELSE <<>>)],
                      !.mapped = TRUE,
                      !.pc = "returned"]
    /\ UNCHANGED <<walk, single, ufunc, heff, fit, engine, oscfn, term>>

NextSim ==
    \/ ScanParam
    \/ EndScan
    \/ RunSingle
    \/ MapTasks

SpecSim == InitSim /\ [][NextSim]_vars

\* =============================================================== claims

\* generate_fn is over: it returned or raised
Over == pc \in {"returned", "raised"}

\* the instructions that need a frequency: ShiftFrequency, SetPhase, amplitudes
NeedsFrequency(inst) == inst.op \in {"ShiftFrequency", "SetPhase"} \/ IsAmplitude(inst)

\* position k holds an instruction that needs a frequency, and no
\* SetFrequency comes before it
UnsetAt(k) ==
    /\ NeedsFrequency(seq[k])
    /\ \A j \in 1..(k - 1) : seq[j].op # "SetFrequency"

SequencingErrors ==
    {"RuntimeError: ShiftFrequency called before SetFrequency",
     "RuntimeError: SetPhase called before SetFrequency",
     "RuntimeError: Pulse called before SetFrequency"}

\* the merge step has run: funclist ends with its (time, None, None) entry
Merged == Over /\ funclist # <<>> /\ funclist[Len(funclist)].x.kind = "None"

\* number of intervals in funclist (the terminating entry is not one)
NumIntervals == IF Merged THEN Len(funclist) - 1 ELSE Len(funclist)

\* C1: when generate_fn is over on a sequence in which a ShiftFrequency, a
\* SetPhase or an amplitude comes with no SetFrequency before it, it has
\* raised the sequencing error of that instruction and returned no
\* coefficient, also when earlier Delays had already produced intervals.
C1_SequencingError ==
    (Over /\ \E k \in 1..Len(seq) : UnsetAt(k))
        => /\ pc = "raised"
           /\ error \in SequencingErrors
           /\ fn_x = NoneCoef
           /\ fn_y = NoneCoef
           /\ idx < Len(seq)
           /\ UnsetAt(idx + 1)

\* C1 witness: a sequencing error raised after a Delay had produced an interval
C1_Witness ==
    /\ pc = "raised"
    /\ error \in SequencingErrors
    /\ funclist # <<>>
    /\ \E k \in 1..Len(seq) : UnsetAt(k)

\* C2 (as claimed): a sequence in which no amplitude instruction is processed
\* never returns coefficients; generate_fn raises.
C2_NoAmplitudeFails ==
    (Over /\ \A i \in 1..Len(seq) : ~IsAmplitude(seq[i])) => pc = "raised"

\* C3: a SetPhase processed with a frequency set makes phase_offset equal to
\* value - frequency * time, whatever phase_offset was, so that
\* frequency * time + phase_offset = value; frequency, time and funclist are
\* unchanged and nothing is raised.
C3_SetPhase ==
    [][(Looping("SetPhase") /\ frequency # None)
         => /\ phase_offset' = seq[idx + 1].value - frequency[1] * time
            /\ frequency'[1] * time' + phase_offset' = seq[idx + 1].value
            /\ UNCHANGED <<frequency, time, funclist>>
            /\ pc' # "raised"
            /\ idx' = idx + 1]_vars

\* C3 witness: a SetPhase has been processed at a non-zero elapsed time, where
\* value - frequency * time differs from value
C3_Witness ==
    /\ pc \in {"loop", "merge"}
    /\ idx >= 1
    /\ seq[idx].op = "SetPhase"
    /\ time > 0
    /\ phase_offset = seq[idx].value - frequency[1] * time
    /\ phase_offset # seq[idx].value

RECURSIVE RunningFrequency(_)
\* the frequency the claim C4 names for a prefix s: None before any
\* SetFrequency, else the last SetFrequency's value plus the ShiftFrequency
\* values after it
RunningFrequency(s) ==
    IF s = <<>>
    THEN None
    ELSE LET last == s[Len(s)]
             before == RunningFrequency(SubSeq(s, 1, Len(s) - 1))
         IN  CASE last.op = "SetFrequency" -> <<last.value>>
               [] last.op = "ShiftFrequency" /\ before # None -> <<before[1] + last.value>>
               [] OTHER -> before

\* C4: while generate_fn walks without an error, the running frequency is the
\* value of the most recent SetFrequency plus the ShiftFrequency values after
\* it; a SetFrequency replaces the frequency and never raises.
C4_RunningFrequency ==
    /\ [](pc \in {"loop", "merge", "returned"} => frequency = RunningFrequency(SubSeq(seq, 1, idx)))
    /\ [][Looping("SetFrequency") => (pc' # "raised" /\ frequency' = <<seq[idx + 1].value>>)]_vars

\* C4 witness: a SetFrequency was processed after a ShiftFrequency had
\* changed an earlier frequency
C4_Witness ==
    /\ pc \in {"loop", "merge"}
    /\ idx >= 3
    /\ seq[idx].op = "SetFrequency"
    /\ seq[idx - 1].op = "ShiftFrequency"
    /\ seq[idx - 2].op = "SetFrequency"
    /\ frequency = <<seq[idx].value>>
    /\ seq[idx - 2].value + seq[idx - 1].value # seq[idx].value

\* an indefinite amplitude: any amplitude that is not a Pulse
IsIndefinite(inst) == IsAmplitude(inst) /\ inst.op # "Pulse"

HasIndefinite(s) == \E k \in 1..Len(s) : IsIndefinite(s[k])

FirstIndefinite(s) ==
    CHOOSE k \in 1..Len(s) : IsIndefinite(s[k]) /\ \A j \in 1..(k - 1) : ~IsIndefinite(s[j])

\* C5: the outcome of generate_fn on a sequence with an indefinite amplitude
\* is the outcome on the sequence cut after the first indefinite amplitude:
\* nothing after it is processed or raises, and once it is processed the
\* elapsed time is infinite.
C5_IndefiniteEndsWalk ==
    (Over /\ HasIndefinite(seq))
        => LET k == FirstIndefinite(seq)
               cut == GenerateFn(SubSeq(seq, 1, k), Env)
           IN  /\ error = cut.err
               /\ fn_x = cut.x
               /\ fn_y = cut.y
               /\ idx <= k
               /\ (idx = k => time = Inf)

\* C5 witness: generate_fn returned after an indefinite amplitude that is
\* followed by further instructions
C5_Witness ==
    /\ pc = "returned"
    /\ HasIndefinite(seq)
    /\ idx = FirstIndefinite(seq)
    /\ idx < Len(seq)
    /\ time = Inf

\* the sequence is SetFrequency(frame_frequency) followed by two or more
\* sampled arrays and nothing else
ArraysAtResonance ==
    /\ Len(seq) >= 3
    /\ seq[1] = SetFrequency(frame_frequency)
    /\ \A i \in 2..Len(seq) : seq[i].op = "ndarray"

\* C6 (as claimed): under RWA at resonance a sequence of two or more sampled
\* arrays compiles to the concatenation of the arrays, in sequence order, in
\* both quadratures.
C6_ArraysConcatenated ==
    (Over /\ rwa /\ ArraysAtResonance)
        => LET all == Concatenate([i \in 1..(Len(seq) - 1) |-> Envelope(seq[i + 1].data, 0)])
           IN  /\ pc = "returned"
               /\ fn_x.kind = "ndarray" /\ fn_x.form = "envelope.real" /\ fn_x.samples = all
               /\ fn_y.kind = "ndarray" /\ fn_y.form = "envelope.imag" /\ fn_y.samples = all

\* C7: a Delay appends one interval of two zero functions that starts at the
\* elapsed time before the Delay, then advances the time by its value; it
\* changes neither frequency nor phase_offset and raises nothing, with or
\* without a frequency set.
C7_Delay ==
    [][Looping("Delay")
         => /\ funclist' = Append(funclist, Interval(time, ConstantFunction0, ConstantFunction0))
            /\ time' = time + seq[idx + 1].value
            /\ UNCHANGED <<frequency, phase_offset>>
            /\ pc' # "raised"
            /\ idx' = idx + 1]_vars

\* C7 witness: a second Delay was processed with no frequency set; its
\* interval starts where the first Delay ended
C7_Witness ==
    /\ pc \in {"loop", "merge"}
    /\ idx = 2
    /\ seq[1].op = "Delay"
    /\ seq[2].op = "Delay"
    /\ frequency = None
    /\ Len(funclist) = 2
    /\ funclist[2].time = seq[1].value
    /\ time = seq[1].value + seq[2].value

\* an instruction that produces an interval: a Delay or an amplitude
Produces(inst) == inst.op = "Delay" \/ IsAmplitude(inst)

\* the position in s of the instruction that produced the i-th interval
Producer(s, i) ==
    CHOOSE k \in 1..Len(s) :
        /\ Produces(s[k])
        /\ Cardinality({j \in 1..k : Produces(s[j])}) = i

RECURSIVE Durations(_)
\* the sum of the durations of the Delays and Pulses of s
Durations(s) ==
    IF s = <<>>
    THEN 0
    ELSE (IF Head(s).op \in {"Delay", "Pulse"} THEN Head(s).value ELSE 0) + Durations(Tail(s))

NonDecreasing(t) == \A i \in 1..(Len(t) - 1) : t[i] <= t[i + 1]

\* the breakpoints of a returned PiecewiseFunction
GoodBreakpoints(fn) ==
    /\ NonDecreasing(fn.timelist)
    /\ Len(fn.timelist) = Len(fn.funclist) + 1
    /\ Len(fn.funclist) = NumIntervals
    /\ fn.timelist[Len(fn.timelist)] = time
    /\ (IsIndefinite(seq[idx]) => fn.timelist[Len(fn.timelist)] = Inf)
    /\ \A i \in 1..NumIntervals : fn.timelist[i] = funclist[i].time

\* C8: every interval starts at the sum of the durations of the Delays and
\* Pulses before the instruction that produced it; the breakpoints of a
\* returned PiecewiseFunction are non-decreasing, one more than the intervals,
\* and end with the elapsed time, which is infinite after an indefinite drive.
C8_Breakpoints ==
    /\ \A i \in 1..NumIntervals :
          funclist[i].time = Durations(SubSeq(seq, 1, Producer(seq, i) - 1))
    /\ (pc = "returned" /\ NumIntervals >= 2) =>
          /\ fn_x.form = "PiecewiseFunction" => GoodBreakpoints(fn_x)
          /\ fn_y.form = "PiecewiseFunction" => GoodBreakpoints(fn_y)

\* C8 witness: a PiecewiseFunction was returned whose second interval starts
\* after the first and whose last breakpoint is infinite
C8_Witness ==
    /\ pc = "returned"
    /\ fn_x.form = "PiecewiseFunction"
    /\ fn_y.form = "PiecewiseFunction"
    /\ Len(fn_x.timelist) >= 3
    /\ fn_x.timelist[2] > fn_x.timelist[1]
    /\ fn_x.timelist[Len(fn_x.timelist)] = Inf

AllOfKind(kind) ==
    /\ \A i \in 1..NumIntervals : funclist[i].x.kind = kind
    /\ \A i \in 1..NumIntervals : funclist[i].y.kind = kind

\* C9: after the merge step, two or more intervals that are neither all
\* TimeFunctions nor all arrays have made generate_fn raise the
\* type-consistency error and return nothing; exactly one interval is
\* returned as it is.
C9_Merge ==
    Merged =>
        /\ (NumIntervals >= 2 /\ ~AllOfKind("TimeFunction") /\ ~AllOfKind("ndarray"))
              => /\ pc = "raised"
                 /\ error = "ValueError: Cannot generate a Hamiltonian coefficient from amplitude types"
                 /\ fn_x = NoneCoef
                 /\ fn_y = NoneCoef
        /\ NumIntervals = 1
              => /\ pc = "returned"
                 /\ fn_x = funclist[1].x
                 /\ fn_y = funclist[1].y

\* C9 witness: the merge step raised on a TimeFunction interval followed by an
\* interval of another kind
C9_Witness ==
    /\ Merged
    /\ pc = "raised"
    /\ NumIntervals >= 2
    /\ funclist[1].x.kind = "TimeFunction"
    /\ funclist[2].x.kind \in {"float", "str", "ndarray"}

\* the positions of the SetFrequency instructions
SetFrequencyAt == {i \in 1..Len(seq) : seq[i].op = "SetFrequency"}

\* C10: the frequency property is a value exactly when the sequence has a
\* SetFrequency and all its SetFrequency instructions carry one value, which
\* is then the value returned; otherwise it is None.  Only SetFrequency
\* instructions are read.
C10_Frequency ==
    pc = "frequency" =>
        /\ prop # None <=>
              /\ SetFrequencyAt # {}
              /\ \A i, j \in SetFrequencyAt : seq[i].value = seq[j].value
        /\ prop # None => \A i \in SetFrequencyAt : prop = <<seq[i].value>>

\* C10 witness: the property returned a value for a sequence with two equal
\* SetFrequency instructions and a ShiftFrequency
C10_Witness ==
    /\ pc = "frequency"
    /\ prop # None
    /\ Cardinality(SetFrequencyAt) >= 2
    /\ \E i \in 1..Len(seq) : seq[i].op = "ShiftFrequency"

\* ------------------------------------------------ generate_single claims
\* generate_single has been called and is over
Compiled == single.pc \in {"compiled", "bound", "done"}

\* the amplitude is of a type that generate_single has a branch for
Recognized(amplitude) == amplitude.op \in {"float", "Parameter", "str", "ndarray", "Pulse", "callable"}

\* the expressions the resonance shortcut returns: the envelope's real and
\* imaginary part, with no oscillating factor
ResonantForms == {"envelope.real", "envelope.imag", "(envelope).real", "(envelope).imag"}

\* C11: under RWA the resonance shortcut is taken only when the drive
\* frequency and the frame frequency are both literal numbers; when either
\* is deferred, the call returns a pair with the oscillating factor kept.
C11_ResonanceOnlyLiteral ==
    (Compiled /\ single.rwa /\ Recognized(single.amplitude)
        /\ (IsDeferred(single.frequency) \/ IsDeferred(single.frame_frequency)))
    => /\ single.fn.err = ""
       /\ single.fn.x.form \notin ResonantForms
       /\ single.fn.y.form \notin ResonantForms

\* C12: SetFrequency(f), phase shifts, and one constant numeric amplitude a,
\* compiled under RWA in the frame of f: the pair is (Re(E), Im(E)), two
\* numbers, with E = a * drive_base * exp(-i * phase_offset); without phase
\* shifts the phase offset is zero.
RECURSIVE SumOfShifts(_, _)
SumOfShifts(s, n) == IF n = 0 THEN 0 ELSE SumOfShifts(s, n - 1) + (IF s[n].op = "ShiftPhase" THEN s[n].value ELSE 0)

ResonantConstantDrive ==
    /\ Len(seq) >= 2
    /\ seq[1] = SetFrequency(frame_frequency)
    /\ EvalStatic(seq[Len(seq)]).op = "float"
    /\ \A i \in 2..(Len(seq) - 1) : seq[i].op = "ShiftPhase"
    /\ rwa

C12_ResonantConstant ==
    (Over /\ ResonantConstantDrive)
    => LET a == EvalStatic(seq[Len(seq)])
           phi == SumOfShifts(seq, Len(seq))
       IN  /\ pc = "returned"
           /\ fn_x = Coef("float", "envelope.real", a, phi, Num(0), 0, None, <<>>)
           /\ fn_y = Coef("float", "envelope.imag", a, phi, Num(0), 0, None, <<>>)
           /\ (Len(seq) = 2 => fn_x.phase = 0 /\ fn_y.phase = 0)

C12_Witness ==
    /\ pc = "returned"
    /\ ResonantConstantDrive
    /\ Len(seq) = 3
    /\ fn_x.kind = "float"
    /\ fn_x.phase = 1
    /\ fn_x.inst = FloatAmp(2)

\* What a coefficient evaluates to, as a function of the time: the part
\* ("re" or "im") of E * exp(-i * osc * t) with E the envelope ("rotating"),
\* the samples of an array, or zero; times the frame's cosine or sine.
\* constant_phase is the caller's statement of the phase of E, so that
\* |E| * cos(phase - osc * t) is the real part of E * exp(-i * osc * t); a
\* deferred constant_phase formatted into text stays in the meaning, as it
\* is no longer a value.
ReForms ==
    {"envelope.real", "(envelope).real",
     "(ExpFunction(-detuning) * envelope).real",
     "re * cos(detuning * t) + im * sin(detuning * t)",
     "(envelope).real * cos(detuning * t) + (envelope).imag * sin(detuning * t)",
     "(envelope * ExpFunction(-detuning)).real",
     "abs(envelope) * cos(phase - (detuning * t))",
     "abs(envelope) * CosFunction(-detuning, phase)",
     "re * CosFunction(frequency) + im * SinFunction(frequency)",
     "re * cos(frequency * t) + im * sin(frequency * t)",
     "(double_envelope * (cos(frequency * t) - 1.j * sin(frequency * t))).real",
     "abs(double_envelope) * cos(phase - (frequency * t))",
     "(ExpFunction(-frequency) * double_envelope).real",
     "(double_envelope * ExpFunction(-frequency)).real"}

Meaning(c) ==
    [family |-> IF c.form \in {"", "ConstantFunction(0.)"} THEN "zero"
                ELSE IF c.kind = "ndarray" THEN "samples"
                ELSE "rotating",
     part |-> IF c.form \in ReForms THEN "re" ELSE "im",
     inst |-> c.inst, phase |-> c.phase, osc |-> c.osc, tzero |-> c.tzero,
     cphase |-> IF c.cphase # None /\ c.cphase[1].type = "repr" THEN c.cphase ELSE None,
     samples |-> c.samples, frame |-> c.frame, proj |-> c.proj]

\* the call has a deferred value among its arguments
HasDeferred(s) ==
    \/ s.amplitude.op = "Parameter"
    \/ IsDeferred(s.frequency)
    \/ IsDeferred(s.frame_frequency)
    \/ (s.constant_phase # None /\ IsDeferred(s.constant_phase[1]))

\* C13: compiling with deferred values and then binding them gives the same
\* two coefficients, at every time, as compiling with the numbers put in
\* (the bound frequency may equal the frame frequency): both fail alike, or
\* both return and the coefficients evaluate alike.
C13_RoundTrip ==
    (single.pc = "done" /\ HasDeferred(single))
    => /\ single.bound.err = single.direct.err
       /\ Meaning(single.bound.x) = Meaning(single.direct.x)
       /\ Meaning(single.bound.y) = Meaning(single.direct.y)

\* C15: a text amplitude compiled with a deferred frequency or a deferred
\* constant phase fails, under RWA and in the full frame alike; no pair
\* with the parameter written into the text is returned.
C15_TextWithDeferredFails ==
    (Compiled /\ single.amplitude.op = "str"
        /\ (IsDeferred(single.frequency)
              \/ (single.constant_phase # None /\ IsDeferred(single.constant_phase[1]))))
    => single.fn.err # ""

\* a coefficient of the full frame without the frame's factor
LabFrame(c) == [c EXCEPT !.proj = "", !.frame = Num(0)]

\* the expressions _generate_single_full builds for the lab frame
LabFrameForms ==
    {"re * CosFunction(frequency) + im * SinFunction(frequency)",
     "re * cos(frequency * t) + im * sin(frequency * t)",
     "(double_envelope * (cos(frequency * t) - 1.j * sin(frequency * t))).real",
     "abs(double_envelope) * cos(phase - (frequency * t))",
     "(ExpFunction(-frequency) * double_envelope).real",
     "(double_envelope * ExpFunction(-frequency)).real"}

\* C14: in the full frame, for an amplitude of any category, a non-zero
\* frame frequency gives the lab-frame function times cos(frame_frequency *
\* t) and the same function times sin(frame_frequency * t); a zero frame
\* frequency gives the lab-frame function itself and a second coefficient
\* that is zero (ConstantFunction(0.), or the empty text).
C14_FrameProjection ==
    (Compiled /\ ~single.rwa /\ single.fn.err = "")
    => LET x == single.fn.x
           y == single.fn.y
       IN  /\ x.form \in LabFrameForms
           /\ x.inst = single.amplitude
           /\ IF IsZero(single.frame_frequency)
              THEN /\ x.proj = ""
                   /\ x.frame = Num(0)
                   /\ y \in {ConstantFunction0, Coef("str", "", NoInst, 0, Num(0), 0, None, <<>>)}
                   /\ y.kind = x.kind
              ELSE /\ x.proj = "cos"
                   /\ y.proj = "sin"
                   /\ x.frame = single.frame_frequency
                   /\ y.frame = single.frame_frequency
                   /\ LabFrame(y) = LabFrame(x)

C14_Witness ==
    /\ Compiled
    /\ ~single.rwa
    /\ single.amplitude.op = "callable"
    /\ single.frame_frequency = Num(1)
    /\ single.fn.x.proj = "cos"
    /\ single.fn.y.proj = "sin"
    /\ single.fn.x.tzero = 2

\* the call of this state made at a zero start offset
AtZeroOffset ==
    GenerateSingle(SingleEnv(single), single.amplitude, single.frequency, single.phase_offset, 0)

C18_FailureCaptured ==
    /\ ufunc.pc = "raise" => ufunc.saved = <<ufunc.mat>>
    /\ ufunc.pc = "raised" => (ufunc.saved = <<ufunc.mat>> /\ ufunc.error = "LinAlgError")

\* C19: with op the identity, matrix_ufunc returns the matrix it was given,
\* for every normal matrix, and for a Hermitian one with hermitian set or not.
C19_IdentityReturnsInput ==
    (ufunc.pc = "returned" /\ ufunc.op = "identity") => ufunc.op_mat = ufunc.mat

\* -------------------------------------------- branch-cut detection claims
\* the time indices (from 0) at which an eigenphase is within the margin of
\* a branch cut
WithinMargin(ilogvs) ==
    {it \in 0..(Len(ilogvs) - 1) :
        \/ Amin(ilogvs[it + 1]) < 0 - Pi + Margin
        \/ Amax(ilogvs[it + 1]) > Pi - Margin}

\* C20: last_valid_it is the smallest time index at which the minimum
\* eigenphase is below -pi + 0.1 or the maximum above pi - 0.1, and the
\* number of time points when there is none; a trajectory that first comes
\* within the margin at index 7, with -pi + 0.05 there, gives 7.
C20_LastValidIt ==
    heff.pc = "returned"
    => LET hits == WithinMargin(heff.ilogvs)
       IN  /\ hits = {} => heff.last_valid_it = Len(heff.ilogvs)
           /\ hits # {} => /\ heff.last_valid_it \in hits
                           /\ \A it \in hits : heff.last_valid_it <= it
           /\ (/\ Len(heff.ilogvs) > 7
               /\ Amin(heff.ilogvs[8]) = 0 - Pi + 50000
               /\ \A it \in hits : it >= 7)
                  => heff.last_valid_it = 7

C20_Witness ==
    /\ heff.pc = "returned"
    /\ Len(heff.ilogvs) = 9
    /\ Amin(heff.ilogvs[8]) = 0 - Pi + 50000
    /\ Amax(heff.ilogvs[9]) = Pi - 50000
    /\ heff.last_valid_it = 7

\* ------------------------------------------------------------------ C21
\* the inspection has set is_update_candidate
Marked == fit.pc \in {"marked", "sorted", "selected"}

\* the coefficient-to-maximum ratio of a basis element exceeds min_coeff_ratio
RatioExceeds(ibase) ==
    LET m == MaxHeffCoeff(fit.heff_coeffs)
    IN  m > 0 /\ Abs(fit.coeffs[ibase]) * fit.min_coeff_ratio[2] > fit.min_coeff_ratio[1] * m

\* C21: in every iteration a basis element is a candidate if and only if its
\* fit succeeded and its commutation residual is strictly below max_com and,
\* in every iteration after the first, its coefficient ratio exceeds
\* min_coeff_ratio or the iteration's last_valid_it differs from the number of
\* time points; an element whose fit failed is never a candidate, and the
\* selection goes on with the other elements.
C21_Candidacy ==
    Marked =>
        \A ibase \in BasisIndices :
            /\ fit.is_update_candidate[ibase] <=>
                 /\ fit.success[ibase]
                 /\ fit.com[ibase] < fit.max_com
                 /\ fit.iloop = 0 \/ RatioExceeds(ibase) \/ fit.last_valid_it # fit.ntimes
            /\ ~fit.success[ibase] => ~fit.is_update_candidate[ibase]

\* a later iteration with an element whose fit failed, an element that is a
\* candidate only because the window is cut short, and the selection done
C21_Witness ==
    /\ fit.pc = "selected"
    /\ fit.iloop = 1
    /\ fit.last_valid_it # fit.ntimes
    /\ \E i, j \in BasisIndices :
          /\ ~fit.success[i]
          /\ fit.is_update_candidate[j]
          /\ ~RatioExceeds(j)

\* ------------------------------------------------------------------ C29
\* the selection of the iteration is made
SelectionMade == fit.pc = "selected"

\* C29: every element marked as selected is a candidate, also when a
\* candidate has a fitted rate of exactly zero.
C29_SelectedAreCandidates ==
    SelectionMade => \A k \in 1..Len(fit.selected) : fit.is_update_candidate[fit.selected[k]]

\* ------------------------------------------------------------------ C22
Candidates == {ibase \in BasisIndices : fit.is_update_candidate[ibase]}

\* C22: the accepted elements are the candidates of largest absolute fitted
\* rate, in descending order of magnitude, and there are
\* min(num_update_per_iteration, number of candidates) of them.
C22_SelectionOrdering ==
    SelectionMade =>
        LET sel == fit.selected
            chosen == {sel[k] : k \in 1..Len(sel)}
        IN  /\ Len(sel) = IF fit.num_update_per_iteration < Cardinality(Candidates)
                          THEN fit.num_update_per_iteration ELSE Cardinality(Candidates)
            /\ chosen \subseteq Candidates
            /\ Cardinality(chosen) = Len(sel)
            /\ \A k \in 1..(Len(sel) - 1) : Abs(fit.coeffs[sel[k]]) >= Abs(fit.coeffs[sel[k + 1]])
            /\ \A i \in chosen, j \in Candidates \ chosen : Abs(fit.coeffs[i]) >= Abs(fit.coeffs[j])

\* ------------------------------------------------------------------ C23
\* the run of the engine is over
Ended == engine.pc \in {"Done", "Aborted"}

\* the candidates of the iteration the engine has just selected from
CandidatesOfRow ==
    {ibase \in BasisIndices :
        /\ engine.row.success[ibase]
        /\ engine.row.com[ibase] < engine.row.max_com
        /\ \/ engine.row.iloop = 0
           \/ Greater(CoeffRatio(engine.row, ibase), engine.row.min_coeff_ratio)
           \/ engine.row.last_valid_it # engine.row.ntimes}

DoneWhenSelectSaysSo ==
    /\ engine.pc \in {"ReconstructResidual", "Done"} =>
         (engine.pc = "Done" <=> (CandidatesOfRow = {} \/ engine.iloop >= engine.cap))
    /\ engine.pc = "Done" =>
         /\ engine.report \in {"no candidates", "iteration cap"}
         /\ engine.report = "no candidates" <=> CandidatesOfRow = {}
    /\ engine.iloop <= engine.cap

C24_BackendFixedAtConstruction ==
    oscfn.pc = "evaluated" => oscfn.value.backend = oscfn.built

\* ------------------------------------------------------------------ C25
\* the sum over the parameter tuple of a function, each bound value weighted
\* by the coefficient of its parameter: in the frequency (times t) for the
\* first k entries, in the phase for the others
RECURSIVE BoundSum(_, _, _, _, _)
BoundSum(self, t, args, k, n) ==
    IF n = 0 THEN 0
    ELSE BoundSum(self, t, args, k, n - 1)
           + (IF n <= k
              THEN self.frequency.c[self.parameters[n]] * args[n] * t
              ELSE self.phase.c[self.parameters[n]] * args[n])

\* C25: the parameter tuple of an OscillationFunction is the frequency's
\* parameters followed by the phase's (empty when neither is deferred), and an
\* evaluation gives the first len(frequency.parameters) bound values to the
\* frequency and the others to the phase: it returns op(frequency * t + phase)
\* for the bound values.
C25_OscillationStrategies ==
    oscfn.pc \in {"constructed", "evaluated"} =>
        LET self == oscfn.self
            fp == IF IsDeferred(self.frequency) THEN ParametersOf(self.frequency) ELSE <<>>
            pp == IF IsDeferred(self.phase) THEN ParametersOf(self.phase) ELSE <<>>
        IN  /\ self.parameters = fp \o pp
            /\ self.fn = CASE fp # <<>> /\ pp # <<>> -> "_fn_PE_PE"
                           [] fp # <<>> /\ pp = <<>> -> "_fn_PE_float"
                           [] fp = <<>> /\ pp # <<>> -> "_fn_float_PE"
                           [] OTHER -> "_fn_float_float"
            /\ oscfn.pc = "evaluated" =>
                 /\ oscfn.value.x = self.frequency.n * oscfn.t + self.phase.n
                                      + BoundSum(self, oscfn.t, oscfn.args, Len(fp), Len(self.parameters))
                 /\ oscfn.value.op = self.op.name

\* both deferred, the frequency with two parameters, the phase with a
\* parameter of the same name as one of the frequency's, bound to another value
C25_Witness ==
    /\ oscfn.pc = "evaluated"
    /\ oscfn.self.fn = "_fn_PE_PE"
    /\ oscfn.self.parameters = <<"f", "xi", "f">>
    /\ oscfn.args[1] # oscfn.args[3]

\* ------------------------------------------------------------------ C26
\* the constructor is over
TermOver == term.pc \in {"constructed", "raised"}

\* the sequence does not start with a SetFrequency
NoLeadingSetFrequency(s) == s = <<>> \/ s[1].op # "SetFrequency"

\* C26: with a sequence, the stored sequence is the given one with
\* SetFrequency(frequency) put in front exactly when a frequency is given and
\* the first instruction is not a SetFrequency, and constant_phase is None;
\* without a sequence, a missing frequency or amplitude is an error and
\* otherwise the sequence is [SetFrequency(frequency), amplitude].
C26_Construction ==
    TermOver =>
        IF term.sequence # None
        THEN /\ term.pc = "constructed"
             /\ term.self_constant_phase = None
             /\ term.self_sequence =
                  IF term.frequency # None /\ NoLeadingSetFrequency(term.sequence[1])
                  THEN <<SetFrequency(term.frequency[1])>> \o term.sequence[1]
                  ELSE term.sequence[1]
        ELSE IF term.frequency = None \/ term.amplitude = None
        THEN term.pc = "raised"
        ELSE /\ term.pc = "constructed"
             /\ term.self_sequence = <<SetFrequency(term.frequency[1]), term.amplitude[1]>>

\* ------------------------------------------------------------------ C27
ListParams == {k \in ParamIndices : sim.params[k].list}

\* C27: list parameters of different lengths make pulse_sim fail with a
\* ValueError before any simulation; otherwise num_tasks jobs are formed, job
\* itask receiving entry itask of every list parameter and the single value of
\* every other parameter; with no list parameter one simulation is run.
C27_ZippedJobs ==
    sim.pc \in {"returned", "raised"} =>
        IF \E k, l \in ListParams : Len(sim.params[k].value) # Len(sim.params[l].value)
        THEN sim.pc = "raised" /\ sim.runs = 0 /\ ~sim.mapped
        ELSE IF ListParams = {}
        THEN sim.pc = "returned" /\ sim.runs = 1 /\ ~sim.mapped
        ELSE LET num_tasks == Len(sim.params[CHOOSE k \in ListParams : TRUE].value)
             IN  /\ sim.pc = "returned" /\ sim.runs = 0 /\ sim.mapped
                 /\ Len(sim.job_args) = num_tasks
                 /\ \A itask \in 1..num_tasks :
                       sim.job_args[itask] =
                          [k \in ParamIndices |->
                              IF sim.params[k].list THEN sim.params[k].value[itask]
                              ELSE sim.params[k].value]

\* ------------------------------------------------------------------ C28
\* C28: full-frame generation returns a coefficient pair for every recognized
\* amplitude, whatever the constant-phase hint is (absent, a number, a
\* Parameter): the only error it ends in is the unsupported-amplitude error.
C28_FullFrameCompiles ==
    (Compiled /\ ~single.rwa /\ Recognized(single.amplitude)) => single.fn.err = ""

\* ------------------------------------------------------------------ C30
\* an eigenphase within the margin of -pi or of +pi
NearCut(v) == v < 0 - Pi + Margin \/ v > Pi - Margin

\* the series with every eigenphase negated
Negated(ilogvs) == [it \in 1..Len(ilogvs) |-> [k \in 1..2 |-> 0 - ilogvs[it][k]]]

\* C30: last_valid_it lies in 0..N, no time index strictly before it has an
\* eigenphase within the 0.1 margin of +pi or -pi, and the series with all
\* eigenphases negated gives the same last_valid_it.
C30_ValidWindow ==
    heff.pc = "returned"
    => /\ 0 <= heff.last_valid_it
       /\ heff.last_valid_it <= Len(heff.ilogvs)
       /\ \A it \in 0..(heff.last_valid_it - 1) : \A k \in 1..2 : ~NearCut(heff.ilogvs[it + 1][k])
       /\ heff.last_valid_it = GetLastValidIt(Negated(heff.ilogvs))

\* a series cut short by an eigenphase near +pi only, after a valid start
C30_Witness ==
    /\ heff.pc = "returned"
    /\ 0 < heff.last_valid_it
    /\ heff.last_valid_it < Len(heff.ilogvs)
    /\ \A it \in 1..Len(heff.ilogvs) : \A k \in 1..2 : heff.ilogvs[it][k] >= 0
    /\ Negated(heff.ilogvs) # heff.ilogvs

====
